---------------------------- MODULE Spec2Model ----------------------------
(***************************************************************************)
(* Model of the FileManagerPro filesystem core:                            *)
(*   - the navigator command surface (navigator.cpp, class FileNavigator)  *)
(*   - the native n8n library (Core/file_utils.c)                          *)
(* over an abstract POSIX filesystem: a tree of directories, regular       *)
(* files and symbolic links.  A path is the sequence of its components, a  *)
(* name is the sequence of its character codes.                            *)
(***************************************************************************)
EXTENDS Integers, Sequences, FiniteSets, TLC

(***************************************************************************)
(* Bounds of the model.                                                    *)
(***************************************************************************)
MaxDepth == 2        \* deepest path of the filesystem universe (stands for PATH_MAX)
MaxNodes == 3        \* number of nodes of the initial tree
MaxData == 1         \* file contents are 0 (empty) .. MaxData
MaxHops == 2         \* symlinks followed by one path resolution (stands for MAXSYMLINKS)
MaxBatch == 3        \* pairs of one n8n_batch_copy call
MaxEvents == 2       \* changes in the watched directory during one run of a monitor
MaxStops == 2        \* calls of n8n_stop_monitor on one monitor
MaxPieces == 5       \* pieces of a path given to normalize_path
MaxCalls == 4        \* calls made on one ProjectAnalyzer
SizeBits == 2        \* bits of a size_t of the ProjectAnalyzer
MaxCommands == 2     \* commands run on one FileNavigator
SessionNodes == 1    \* entries below the root when a FileNavigator is constructed

\* names: ".a" and "a" as character codes
Names == { <<46, 97>>, <<97>> }

Paths == UNION { [1..n -> Names] : n \in 0..MaxDepth }
Root == << >>
TopPaths == { p \in Paths : Len(p) = 1 }
Data == 0..MaxData

NoNode == [kind |-> "none", data |-> 0, target |-> << >>]
DirNode == [kind |-> "dir", data |-> 0, target |-> << >>]
FileNode(d) == [kind |-> "file", data |-> d, target |-> << >>]
LinkNode(t) == [kind |-> "symlink", data |-> 0, target |-> t]

VARIABLES
    fs,      \* the filesystem: Paths -> node
    pre,     \* the filesystem before the command ran
    cmd,     \* the command that ran and its arguments
    res,     \* its result envelope
    log,     \* the system calls it made that change the filesystem, in order
    mon,     \* a directory monitor of the library and the threads at work on it
    host,    \* the navigator process: its environment, its backend loader, its exit
    analyzer, \* a ProjectAnalyzer of the project template and the calls made on it
    nav      \* a FileNavigator that runs one command after another: its current path

vars == << fs, pre, cmd, res, log, mon, host, analyzer, nav >>

(***************************************************************************)
(* The filesystem: path resolution and the system calls the code uses.     *)
(***************************************************************************)
Parent(p) == SubSeq(p, 1, Len(p) - 1)
IsPrefix(p, q) == Len(p) <= Len(q) /\ SubSeq(q, 1, Len(p)) = p
Exists(f, p) == p \in Paths /\ f[p].kind # "none"
Children(f, p) == { n \in Names : Append(p, n) \in Paths /\ f[Append(p, n)].kind # "none" }
Subtree(f, p) == { q \in Paths : IsPrefix(p, q) /\ f[q].kind # "none" }

Ok(p) == [err |-> "OK", path |-> p]
Err(e) == [err |-> e, path |-> << >>]

\* path_walk: resolve `rest` below the real directory `cur`; symlinks in
\* inner components are always followed, the last one only if followLast.
RECURSIVE Walk(_, _, _, _, _)
Walk(f, cur, rest, followLast, hops) ==
    IF rest = << >> THEN Ok(cur)
    ELSE IF f[cur].kind = "none" THEN Err("ENOENT")
    ELSE IF f[cur].kind # "dir" THEN Err("ENOTDIR")
    ELSE IF Len(cur) >= MaxDepth THEN Err("ENAMETOOLONG")
    ELSE LET nxt == Append(cur, Head(rest))
             more == Tail(rest)
             node == f[nxt]
         IN  IF node.kind = "symlink" /\ (more # << >> \/ followLast)
             THEN IF hops = 0 THEN Err("ELOOP")
                  ELSE Walk(f, Root, node.target \o more, followLast, hops - 1)
             ELSE Walk(f, nxt, more, followLast, hops)

Resolve(f, p, followLast) == Walk(f, Root, p, followLast, MaxHops)

\* lstat(2) / stat(2): the node, or kind "none" with the errno
StatAt(f, p, follow) ==
    LET r == Resolve(f, p, follow)
    IN  IF r.err # "OK" THEN [err |-> r.err, node |-> NoNode]
        ELSE IF f[r.path].kind = "none" THEN [err |-> "ENOENT", node |-> NoNode]
        ELSE [err |-> "OK", node |-> f[r.path]]
lstat(f, p) == StatAt(f, p, FALSE)
stat(f, p) == StatAt(f, p, TRUE)

SysRes(f, e) == [fs |-> f, err |-> e]

\* unlink(2)
unlink(f, p) ==
    LET r == Resolve(f, p, FALSE)
    IN  IF r.err # "OK" THEN SysRes(f, r.err)
        ELSE IF f[r.path].kind = "none" THEN SysRes(f, "ENOENT")
        ELSE IF f[r.path].kind = "dir" THEN SysRes(f, "EISDIR")
        ELSE SysRes([f EXCEPT ![r.path] = NoNode], "OK")

\* rmdir(2)
rmdir(f, p) ==
    LET r == Resolve(f, p, FALSE)
    IN  IF r.err # "OK" THEN SysRes(f, r.err)
        ELSE IF f[r.path].kind = "none" THEN SysRes(f, "ENOENT")
        ELSE IF f[r.path].kind # "dir" THEN SysRes(f, "ENOTDIR")
        ELSE IF r.path = Root THEN SysRes(f, "EBUSY")
        ELSE IF Children(f, r.path) # {} THEN SysRes(f, "ENOTEMPTY")
        ELSE SysRes([f EXCEPT ![r.path] = NoNode], "OK")

\* mkdir(2)
mkdir(f, p) ==
    LET r == Resolve(f, p, FALSE)
    IN  IF r.err # "OK" THEN SysRes(f, r.err)
        ELSE IF f[r.path].kind # "none" THEN SysRes(f, "EEXIST")
        ELSE SysRes([f EXCEPT ![r.path] = DirNode], "OK")

\* opendir(3) + readdir(3): the entries of the directory in the order `ord`
\* the filesystem hands them out ("." and ".." are skipped by every caller)
opendir(f, p, ord) ==
    LET r == Resolve(f, p, TRUE)
    IN  IF r.err # "OK" THEN [err |-> r.err, entries |-> << >>]
        ELSE IF f[r.path].kind = "none" THEN [err |-> "ENOENT", entries |-> << >>]
        ELSE IF f[r.path].kind # "dir" THEN [err |-> "ENOTDIR", entries |-> << >>]
        ELSE [err |-> "OK",
              entries |-> SelectSeq(ord, LAMBDA n : n \in Children(f, r.path))]

\* symlink(2)
symlink(f, target, p) ==
    LET r == Resolve(f, p, FALSE)
    IN  IF r.err # "OK" THEN SysRes(f, r.err)
        ELSE IF f[r.path].kind # "none" THEN SysRes(f, "EEXIST")
        ELSE SysRes([f EXCEPT ![r.path] = LinkNode(target)], "OK")

\* readlink(2); `fault` is an I/O failure of the call itself
readlink(f, p, fault) ==
    LET st == lstat(f, p)
    IN  IF st.err # "OK" THEN [err |-> st.err, target |-> << >>]
        ELSE IF st.node.kind # "symlink" THEN [err |-> "EINVAL", target |-> << >>]
        ELSE IF fault THEN [err |-> "EIO", target |-> << >>]
        ELSE [err |-> "OK", target |-> st.node.target]

\* access(path, F_OK) == 0
access(f, p) == stat(f, p).err = "OK"

\* open(path, O_RDONLY) / fopen(path, "rb"): follows symlinks, opens directories too
open_read(f, p) ==
    LET r == Resolve(f, p, TRUE)
    IN  IF r.err # "OK" THEN r
        ELSE IF f[r.path].kind = "none" THEN Err("ENOENT")
        ELSE r

\* read(2) until end of file on what open_read returned: the bytes, none for
\* a directory (every read fails with EISDIR)
read_all(f, real) == IF f[real].kind = "file" THEN f[real].data ELSE 0

\* open(path, O_WRONLY | O_CREAT | O_TRUNC) / fopen(path, "wb"): follows
\* symlinks, creates the file or truncates it
open_trunc(f, p) ==
    LET r == Resolve(f, p, TRUE)
    IN  IF r.err # "OK" THEN [fs |-> f, err |-> r.err, path |-> << >>]
        ELSE IF f[r.path].kind = "dir" THEN [fs |-> f, err |-> "EISDIR", path |-> << >>]
        ELSE [fs |-> [f EXCEPT ![r.path] = FileNode(0)], err |-> "OK", path |-> r.path]

\* write(2) of `d` bytes' worth of content to the open file at `real`; with
\* the device full a non-empty write fails
write_all(f, real, d, enospc) ==
    IF d = 0 THEN SysRes(f, "OK")
    ELSE IF enospc THEN SysRes(f, "ENOSPC")
    ELSE SysRes([f EXCEPT ![real] = FileNode(d)], "OK")

\* rename(2)
rename(f, old, new) ==
    LET ro == Resolve(f, old, FALSE)
        rn == Resolve(f, new, FALSE)
    IN  IF ro.err # "OK" THEN SysRes(f, ro.err)
        ELSE IF f[ro.path].kind = "none" THEN SysRes(f, "ENOENT")
        ELSE IF rn.err # "OK" THEN SysRes(f, rn.err)
        ELSE IF ro.path = Root \/ rn.path = Root THEN SysRes(f, "EBUSY")
        ELSE IF ro.path = rn.path THEN SysRes(f, "OK")
        ELSE IF f[ro.path].kind = "dir" /\ IsPrefix(ro.path, rn.path) THEN SysRes(f, "EINVAL")
        ELSE IF f[ro.path].kind = "dir" /\ f[rn.path].kind \notin {"none", "dir"}
             THEN SysRes(f, "ENOTDIR")
        ELSE IF f[ro.path].kind # "dir" /\ f[rn.path].kind = "dir" THEN SysRes(f, "EISDIR")
        ELSE IF f[rn.path].kind = "dir" /\ Children(f, rn.path) # {} THEN SysRes(f, "ENOTEMPTY")
        ELSE IF \E q \in Subtree(f, ro.path) :
                    Len(rn.path) + (Len(q) - Len(ro.path)) > MaxDepth
             THEN SysRes(f, "ENAMETOOLONG")
        ELSE LET Moved(q) == ro.path \o SubSeq(q, Len(rn.path) + 1, Len(q))
             IN  SysRes([q \in Paths |->
                            IF IsPrefix(rn.path, q)
                            THEN IF Moved(q) \in Paths THEN f[Moved(q)] ELSE NoNode
                            ELSE IF IsPrefix(ro.path, q) THEN NoNode
                            ELSE f[q]], "OK")

\* the orders in which readdir may hand out the entries of a directory
Orders == { o \in [1..Cardinality(Names) -> Names] : \A i, j \in DOMAIN o : i # j => o[i] # o[j] }
SomeOrder == CHOOSE o \in Orders : TRUE

Event(call, p, e) == [call |-> call, path |-> p, err |-> e]

(***************************************************************************)
(* navigator.cpp: delete                                                   *)
(***************************************************************************)
OpRes(f, l, ok, e) == [fs |-> f, log |-> l, ok |-> ok, err |-> e]

RECURSIVE delete_directory_recursive(_, _, _, _)
RECURSIVE DeleteEntries(_, _, _, _, _)

\* the readdir loop of delete_directory_recursive over the remaining entries
DeleteEntries(f, l, path, entries, ord) ==
    IF entries = << >> THEN OpRes(f, l, TRUE, "OK")
    ELSE LET full_path == Append(path, Head(entries))
             st == lstat(f, full_path)
         IN  IF st.err = "OK"
             THEN IF st.node.kind = "dir"
                  THEN LET sub == delete_directory_recursive(f, l, full_path, ord)
                       IN  IF ~sub.ok THEN sub
                           ELSE DeleteEntries(sub.fs, sub.log, path, Tail(entries), ord)
                  ELSE LET u == unlink(f, full_path)
                           l2 == Append(l, Event("unlink", full_path, u.err))
                       IN  IF u.err # "OK" THEN OpRes(u.fs, l2, FALSE, u.err)
                           ELSE DeleteEntries(u.fs, l2, path, Tail(entries), ord)
             ELSE DeleteEntries(f, l, path, Tail(entries), ord)

\* a delete_directory_recursive that forgets the closing rmdir
delete_directory_recursive_no_rmdir(f, l, path, ord) ==
    LET d == opendir(f, path, ord)
    IN  IF d.err # "OK" THEN OpRes(f, l, FALSE, d.err)
        ELSE DeleteEntries(f, l, path, d.entries, ord)

delete_directory_recursive(f, l, path, ord) ==
    LET d == opendir(f, path, ord)
    IN  IF d.err # "OK" THEN OpRes(f, l, FALSE, d.err)
        ELSE LET loop == DeleteEntries(f, l, path, d.entries, ord)
             IN  IF ~loop.ok THEN loop
                 ELSE LET r == rmdir(loop.fs, path)
                      IN  OpRes(r.fs, Append(loop.log, Event("rmdir", path, r.err)),
                                r.err = "OK", r.err)

\* a delete_item that ignores the -r flag
delete_item_always_recursive(f, item_path, recursive, ord) ==
    LET st == lstat(f, item_path)
    IN  IF st.err # "OK" THEN OpRes(f, << >>, FALSE, st.err)
        ELSE IF st.node.kind = "dir" THEN delete_directory_recursive(f, << >>, item_path, ord)
        ELSE LET u == unlink(f, item_path)
             IN  OpRes(u.fs, << Event("unlink", item_path, u.err) >>, u.err = "OK", u.err)

\* a delete_item that looks at its target with stat
delete_item_follows_link(f, item_path, recursive, ord) ==
    LET st == stat(f, item_path)
    IN  IF st.err # "OK" THEN OpRes(f, << >>, FALSE, st.err)
        ELSE IF st.node.kind = "dir"
        THEN IF recursive
             THEN delete_directory_recursive(f, << >>, item_path, ord)
             ELSE LET r == rmdir(f, item_path)
                  IN  OpRes(r.fs, << Event("rmdir", item_path, r.err) >>, r.err = "OK", r.err)
        ELSE LET u == unlink(f, item_path)
             IN  OpRes(u.fs, << Event("unlink", item_path, u.err) >>, u.err = "OK", u.err)

delete_item(f, item_path, recursive, ord) ==
    LET st == lstat(f, item_path)
    IN  IF st.err # "OK" THEN OpRes(f, << >>, FALSE, st.err)
        ELSE IF st.node.kind = "dir"
        THEN IF recursive
             THEN delete_directory_recursive(f, << >>, item_path, ord)
             ELSE LET r == rmdir(f, item_path)
                  IN  OpRes(r.fs, << Event("rmdir", item_path, r.err) >>, r.err = "OK", r.err)
        ELSE LET u == unlink(f, item_path)
             IN  OpRes(u.fs, << Event("unlink", item_path, u.err) >>, u.err = "OK", u.err)

(***************************************************************************)
(* navigator.cpp: copy                                                     *)
(***************************************************************************)
RECURSIVE copy_item(_, _, _, _, _, _, _)
RECURSIVE copy_directory(_, _, _, _, _, _)
RECURSIVE CopyEntries(_, _, _, _, _, _, _)

\* a readdir loop that goes on to the next entry after a child failed
RECURSIVE CopyEntriesKeepGoing(_, _, _, _, _, _, _)
CopyEntriesKeepGoing(f, l, src, dst, entries, ord, enospc) ==
    IF entries = << >> THEN OpRes(f, l, TRUE, "OK")
    ELSE LET src_path == Append(src, Head(entries))
             dst_path == Append(dst, Head(entries))
             st == lstat(f, src_path)
         IN  IF st.err = "OK"
             THEN LET l1 == Append(l, Event("child", src_path, "OK"))
                      result == IF st.node.kind = "dir"
                                THEN copy_directory(f, l1, src_path, dst_path, ord, enospc)
                                ELSE copy_item(f, l1, src_path, dst_path, FALSE, ord, enospc)
                      l2 == IF result.ok THEN result.log
                            ELSE Append(result.log, Event("child_failed", src_path, result.err))
                      rest == CopyEntriesKeepGoing(result.fs, l2, src, dst, Tail(entries), ord, enospc)
                  IN  IF result.ok THEN rest ELSE OpRes(rest.fs, rest.log, FALSE, result.err)
             ELSE CopyEntriesKeepGoing(f, l, src, dst, Tail(entries), ord, enospc)

\* the readdir loop of copy_directory over the remaining entries
CopyEntries(f, l, src, dst, entries, ord, enospc) ==
    IF entries = << >> THEN OpRes(f, l, TRUE, "OK")
    ELSE LET src_path == Append(src, Head(entries))
             dst_path == Append(dst, Head(entries))
             st == lstat(f, src_path)
         IN  IF st.err = "OK"
             THEN LET l1 == Append(l, Event("child", src_path, "OK"))
                      result == IF st.node.kind = "dir"
                                THEN copy_directory(f, l1, src_path, dst_path, ord, enospc)
                                ELSE copy_item(f, l1, src_path, dst_path, FALSE, ord, enospc)
                  IN  IF ~result.ok
                      THEN OpRes(result.fs, Append(result.log, Event("child_failed", src_path, result.err)),
                                 FALSE, result.err)
                      ELSE CopyEntries(result.fs, result.log, src, dst, Tail(entries), ord, enospc)
             ELSE CopyEntries(f, l, src, dst, Tail(entries), ord, enospc)

copy_directory(f, l, src, dst, ord, enospc) ==
    LET m == mkdir(f, dst)
        l1 == Append(l, Event("mkdir", dst, m.err))
    IN  IF m.err \notin {"OK", "EEXIST"} THEN OpRes(m.fs, l1, FALSE, m.err)
        ELSE LET d == opendir(m.fs, src, ord)
             IN  IF d.err # "OK" THEN OpRes(m.fs, l1, FALSE, d.err)
                 ELSE CopyEntries(m.fs, l1, src, dst, d.entries, ord, enospc)

copy_item(f, l, src, dst, recursive, ord, enospc) ==
    LET src_stat == lstat(f, src)
    IN  IF src_stat.err # "OK" THEN OpRes(f, l, FALSE, src_stat.err)
        ELSE IF src_stat.node.kind = "dir" /\ ~recursive THEN OpRes(f, l, FALSE, "NO_R_FLAG")
        ELSE IF src_stat.node.kind = "dir" THEN copy_directory(f, l, src, dst, ord, enospc)
        ELSE LET source_fd == open_read(f, src)
                 l1 == Append(l, Event("open", src, source_fd.err))
             IN  IF source_fd.err # "OK" THEN OpRes(f, l1, FALSE, source_fd.err)
                 ELSE LET dest_fd == open_trunc(f, dst)
                          l2 == Append(l1, Event("creat", dst, dest_fd.err))
                      IN  IF dest_fd.err # "OK" THEN OpRes(f, l2, FALSE, dest_fd.err)
                          ELSE LET bytes == read_all(dest_fd.fs, source_fd.path)
                                   w == write_all(dest_fd.fs, dest_fd.path, bytes, enospc)
                                   l3 == IF bytes = 0 THEN l2
                                         ELSE Append(l2, Event("write", dst, w.err))
                               IN  IF w.err # "OK"
                                   THEN LET u == unlink(w.fs, dst)
                                        IN  OpRes(u.fs, Append(l3, Event("unlink", dst, u.err)),
                                                  FALSE, w.err)
                                   ELSE OpRes(w.fs, l3, TRUE, "OK")

(***************************************************************************)
(* navigator.cpp: mkdir, move, rename                                      *)
(***************************************************************************)
\* the loop of mkdir_recursive over the proper prefixes of the path from
\* the one of length n on, then the closing mkdir of the path itself
RECURSIVE MkdirPrefixes(_, _, _, _)
MkdirPrefixes(f, l, path, n) ==
    IF n >= Len(path)
    THEN LET m == mkdir(f, path)
         IN  OpRes(m.fs, Append(l, Event("mkdir", path, m.err)), m.err = "OK", m.err)
    ELSE LET current == SubSeq(path, 1, n)
             m == mkdir(f, current)
             l1 == Append(l, Event("mkdir", current, m.err))
         IN  IF m.err \notin {"OK", "EEXIST"} THEN OpRes(m.fs, l1, FALSE, m.err)
             ELSE MkdirPrefixes(m.fs, l1, path, n + 1)

mkdir_recursive(f, path) == MkdirPrefixes(f, << >>, path, 1)

create_directory(f, full_path, parents) ==
    IF parents THEN mkdir_recursive(f, full_path)
    ELSE LET m == mkdir(f, full_path)
         IN  OpRes(m.fs, << Event("mkdir", full_path, m.err) >>, m.err = "OK", m.err)

\* a move that falls back to copy + delete when the rename fails
move_item_copy_fallback(f, src, dst) ==
    LET r == rename(f, src, dst)
        l == << Event("rename", src, r.err) >>
    IN  IF r.err = "OK" THEN OpRes(r.fs, l, TRUE, "OK")
        ELSE LET c == copy_item(f, l, src, dst, TRUE, SomeOrder, FALSE)
             IN  IF ~c.ok THEN c
                 ELSE LET d == delete_item(c.fs, src, TRUE, SomeOrder)
                      IN  OpRes(d.fs, c.log \o d.log, d.ok, d.err)

move_item(f, src, dst) ==
    LET r == rename(f, src, dst)
    IN  OpRes(r.fs, << Event("rename", src, r.err) >>, r.err = "OK", r.err)

rename_item(f, old_name, new_name) ==
    LET r == rename(f, old_name, new_name)
    IN  OpRes(r.fs, << Event("rename", old_name, r.err) >>, r.err = "OK", r.err)

(***************************************************************************)
(* navigator.cpp: list                                                     *)
(***************************************************************************)
\* std::string operator< : lexicographic on the character codes
RECURSIVE StrLess(_, _)
StrLess(a, b) ==
    IF b = << >> THEN FALSE
    ELSE IF a = << >> THEN TRUE
    ELSE IF Head(a) # Head(b) THEN Head(a) < Head(b)
    ELSE StrLess(Tail(a), Tail(b))

\* st_size of lstat: the bytes of a file, the length of a link's target
\* string ("/" + name), one block for a directory
StSize(node) ==
    IF node.kind = "file" THEN node.data
    ELSE IF node.kind = "symlink" THEN Len(node.target) + Len(node.target[1])
    ELSE 4096

\* the comparator handed to std::sort in get_directory_contents
ItemLess(a, b) ==
    IF a.type = b.type THEN StrLess(a.name, b.name)
    ELSE IF a.type = "directory" /\ b.type # "directory" THEN TRUE
    ELSE IF a.type = "symlink" /\ b.type = "file" THEN TRUE
    ELSE FALSE

\* std::sort with that comparator (as an insertion sort)
RECURSIVE InsertItem(_, _)
InsertItem(x, sorted) ==
    IF sorted = << >> THEN << x >>
    ELSE IF ItemLess(x, Head(sorted)) THEN << x >> \o sorted
    ELSE << Head(sorted) >> \o InsertItem(x, Tail(sorted))

RECURSIVE SortItems(_)
SortItems(items) ==
    IF items = << >> THEN << >> ELSE InsertItem(Head(items), SortItems(Tail(items)))

\* one FileItem of get_directory_contents
FileItem(name, node) ==
    [name |-> name,
     type |-> IF node.kind = "symlink" THEN "symlink"
              ELSE IF node.kind = "dir" THEN "directory" ELSE "file",
     size |-> IF node.kind = "file" THEN StSize(node) ELSE 0,
     symlinkTarget |-> node.target,
     isHidden |-> name[1] = 46,
     depth |-> 0]

RECURSIVE ReadItems(_, _, _)
ReadItems(f, path, entries) ==
    IF entries = << >> THEN << >>
    ELSE LET st == lstat(f, Append(path, Head(entries)))
             rest == ReadItems(f, path, Tail(entries))
         IN  IF st.err # "OK" THEN rest
             ELSE << FileItem(Head(entries), st.node) >> \o rest

get_directory_contents(f, path, ord) ==
    LET d == opendir(f, path, ord)
    IN  IF d.err # "OK" THEN << >>
        ELSE SortItems(ReadItems(f, path, d.entries))

is_directory(f, path) == LET st == stat(f, path) IN st.err = "OK" /\ st.node.kind = "dir"

list_files(f, path, ord) ==
    IF ~is_directory(f, path)
    THEN [ok |-> FALSE, err |-> "ENOTDIR", message |-> "error", out |-> << >>]
    ELSE [ok |-> TRUE, err |-> "OK", message |-> "success",
          out |-> get_directory_contents(f, path, ord)]

(***************************************************************************)
(* navigator.cpp: search                                                   *)
(***************************************************************************)
\* std::string::find(pattern) != npos
Contains(name, pattern) ==
    \E i \in 0..Len(name) :
        i + Len(pattern) <= Len(name) /\ SubSeq(name, i + 1, i + Len(pattern)) = pattern

\* one SearchResult of search_files; item.path is current_dir + "/" + name
SearchResult(current_dir, item) ==
    [name |-> item.name, path |-> Append(current_dir, item.name), type |-> item.type,
     size |-> item.size, symlinkTarget |-> item.symlinkTarget]

\* the for loop over the items of one directory: the results it appends and
\* the directories it pushes, both in the order of the items
Matches(current_dir, items, pattern) ==
    LET hits == SelectSeq(items, LAMBDA item : Contains(item.name, pattern))
    IN  [i \in DOMAIN hits |-> SearchResult(current_dir, hits[i])]
Pushes(current_dir, items, recursive) ==
    LET dirs == SelectSeq(items, LAMBDA item : recursive /\ item.type = "directory")
    IN  [i \in DOMAIN dirs |-> Append(current_dir, dirs[i].name)]
PushEvents(paths) == [i \in DOMAIN paths |-> Event("push", paths[i], "OK")]

\* a while loop that takes the directory pushed last (a stack)
RECURSIVE SearchLoopLastFirst(_, _, _, _, _, _, _)
SearchLoopLastFirst(f, dirs_queue, results, l, pattern, recursive, ord) ==
    IF dirs_queue = << >> THEN [results |-> results, log |-> l]
    ELSE LET current_dir == dirs_queue[Len(dirs_queue)]
             Rest(items) ==
                 LET pushed == Pushes(current_dir, items, recursive)
                     l2 == Append(l, Event("enumerate", current_dir, "OK")) \o PushEvents(pushed)
                     results2 == results \o Matches(current_dir, items, pattern)
                 IN  IF ~recursive THEN [results |-> results2, log |-> l2]
                     ELSE SearchLoopLastFirst(f, SubSeq(dirs_queue, 1, Len(dirs_queue) - 1) \o pushed,
                                              results2, l2, pattern, recursive, ord)
         IN  CHOOSE done \in { Rest(items) : items \in
                     { get_directory_contents(f, current_dir, ord) } } : TRUE

\* the while loop of search_files over dirs_queue; items is the one result
\* of get_directory_contents for the directory taken from the front
RECURSIVE SearchLoop(_, _, _, _, _, _, _)
SearchLoop(f, dirs_queue, results, l, pattern, recursive, ord) ==
    IF dirs_queue = << >> THEN [results |-> results, log |-> l]
    ELSE LET current_dir == Head(dirs_queue)
             Rest(items) ==
                 LET pushed == Pushes(current_dir, items, recursive)
                     l2 == Append(l, Event("enumerate", current_dir, "OK")) \o PushEvents(pushed)
                     results2 == results \o Matches(current_dir, items, pattern)
                 IN  IF ~recursive THEN [results |-> results2, log |-> l2]
                     ELSE SearchLoop(f, Tail(dirs_queue) \o pushed, results2, l2,
                                     pattern, recursive, ord)
         IN  CHOOSE done \in { Rest(items) : items \in
                     { get_directory_contents(f, current_dir, ord) } } : TRUE

search_files(f, pattern, recursive, start_path, ord) ==
    LET done == SearchLoop(f, << start_path >>, << >>, << Event("push", start_path, "OK") >>,
                           pattern, recursive, ord)
    IN  [ok |-> TRUE, err |-> "OK", message |-> "results", out |-> done.results, log |-> done.log]

(***************************************************************************)
(* file_utils.c: n8n_copy_file, n8n_batch_copy                             *)
(*                                                                         *)
(* N8N_CopyOptions: overwrite and createDestDir change what is created;    *)
(* preserveTimestamps, preservePermissions and preserveOwner only touch    *)
(* attributes of a destination that already stands.                        *)
(***************************************************************************)
CopyOptions == [overwrite : BOOLEAN, createDestDir : BOOLEAN]

\* N8N_Result: errorCode "0" and message "" are what `result = {0}` leaves
N8nRes(f, l, success, code, msg) ==
    [fs |-> f, log |-> l, success |-> success, errorCode |-> code, message |-> msg]

\* the createDestDir block: mkdir of the text before the last '/', result ignored
CreateDestDir(f, destination) ==
    IF Len(destination) <= 1 THEN f ELSE mkdir(f, Parent(destination)).fs

n8n_copy_file(f, l, source, destination, options, rlfault, enospc) ==
    LET source_stat == lstat(f, source)
    IN  IF source_stat.err # "OK"
        THEN N8nRes(f, l, FALSE, source_stat.err, "Source file does not exist")
        ELSE IF ~options.overwrite /\ access(f, destination)
        THEN N8nRes(f, l, FALSE, "EEXIST", "Destination file already exists")
        ELSE
        LET f1 == IF options.createDestDir THEN CreateDestDir(f, destination) ELSE f
        IN  IF source_stat.node.kind = "symlink"
            THEN LET rl == readlink(f1, source, rlfault)
                 IN  IF rl.err = "OK"
                     THEN LET sl == symlink(f1, rl.target, destination)
                              l1 == Append(l, Event("symlink", destination, sl.err))
                          IN  IF sl.err = "OK"
                              THEN N8nRes(sl.fs, l1, TRUE, "0", "Symbolic link copied successfully")
                              ELSE N8nRes(sl.fs, l1, FALSE, sl.err, "Failed to create symbolic link")
                     ELSE N8nRes(f1, l, FALSE, "0", "")
            ELSE IF source_stat.node.kind = "dir"
            THEN LET m == mkdir(f1, destination)
                     l1 == Append(l, Event("mkdir", destination, m.err))
                 IN  IF m.err = "OK"
                     THEN N8nRes(m.fs, l1, TRUE, "0", "Directory created successfully")
                     ELSE N8nRes(m.fs, l1, FALSE, m.err, "Failed to create directory")
            ELSE LET src_fp == open_read(f1, source)
                     l1 == Append(l, Event("open", source, src_fp.err))
                 IN  IF src_fp.err # "OK"
                     THEN N8nRes(f1, l1, FALSE, src_fp.err, "Cannot open source file")
                     ELSE LET dst_fp == open_trunc(f1, destination)
                              l2 == Append(l1, Event("creat", destination, dst_fp.err))
                          IN  IF dst_fp.err # "OK"
                              THEN N8nRes(f1, l2, FALSE, dst_fp.err, "Cannot open destination file")
                              ELSE LET bytes == read_all(dst_fp.fs, src_fp.path)
                                       w == write_all(dst_fp.fs, dst_fp.path, bytes, enospc)
                                       l3 == IF bytes = 0 THEN l2
                                             ELSE Append(l2, Event("write", destination, w.err))
                                   IN  IF w.err # "OK"
                                       THEN N8nRes(w.fs, l3, FALSE, w.err, "Write error")
                                       ELSE N8nRes(w.fs, l3, TRUE, "0", "File copied successfully")

\* the counters and results[i] after the copy of pair i came back
Tally(acc, copyResult) ==
    [results |-> Append(acc.results, IF copyResult.success THEN 1 ELSE 0),
     successCount |-> acc.successCount + (IF copyResult.success THEN 1 ELSE 0),
     failCount |-> acc.failCount + (IF copyResult.success THEN 0 ELSE 1)]

\* a for loop that leaves at the first pair that fails
RECURSIVE BatchLoopStopAtFailure(_, _, _, _, _, _, _)
BatchLoopStopAtFailure(f, l, sources, destinations, options, i, acc) ==
    IF i > Len(sources) THEN [fs |-> f, log |-> l, acc |-> acc]
    ELSE LET Rest(copyResult) ==
                 IF ~copyResult.success
                 THEN [fs |-> copyResult.fs, log |-> copyResult.log, acc |-> Tally(acc, copyResult)]
                 ELSE BatchLoopStopAtFailure(copyResult.fs, copyResult.log, sources, destinations,
                                             options, i + 1, Tally(acc, copyResult))
         IN  CHOOSE done \in { Rest(copyResult) : copyResult \in
                     { n8n_copy_file(f, Append(l, Event("item", sources[i], "OK")),
                                     sources[i], destinations[i], options, FALSE, FALSE) } } : TRUE

\* the for loop of n8n_batch_copy from index i on; acc is
\* [results, successCount, failCount]; copyResult is the one result of the
\* call for pair i
RECURSIVE BatchLoop(_, _, _, _, _, _, _)
BatchLoop(f, l, sources, destinations, options, i, acc) ==
    IF i > Len(sources) THEN [fs |-> f, log |-> l, acc |-> acc]
    ELSE LET Rest(copyResult) ==
                 BatchLoop(copyResult.fs, copyResult.log, sources, destinations, options, i + 1,
                           Tally(acc, copyResult))
         IN  CHOOSE done \in { Rest(copyResult) : copyResult \in
                     { n8n_copy_file(f, Append(l, Event("item", sources[i], "OK")),
                                     sources[i], destinations[i], options, FALSE, FALSE) } } : TRUE

\* nomem: malloc of the results array returns NULL
n8n_batch_copy(f, sources, destinations, options, nomem) ==
    LET none == [results |-> << >>, successCount |-> 0, failCount |-> 0]
        done == BatchLoop(f, << >>, sources, destinations, options, 1, none)
    IN  IF nomem
        THEN [fs |-> f, log |-> << >>, success |-> FALSE, errorCode |-> "0",
              message |-> "Memory allocation failed", data |-> none]
        ELSE [fs |-> done.fs, log |-> done.log, success |-> TRUE, errorCode |-> "0",
              message |-> "Batch copy completed", data |-> done.acc]

(***************************************************************************)
(* file_utils.c: n8n_list_files                                            *)
(***************************************************************************)
ListOptions == [recursive : BOOLEAN, showHidden : BOOLEAN, filter : { << >>, << 46 >> },
                maxDepth : 0..MaxDepth, followSymlinks : BOOLEAN]

\* strstr(name, filter) != NULL
IsSubstr(filter, name) ==
    \E i \in 0..Len(name) :
        i + Len(filter) <= Len(name) /\ SubSeq(name, i + 1, i + Len(filter)) = filter

\* one N8N_FileInfo of n8n_list_files
N8nFileInfo(name, fullPath, node, depth) ==
    [name |-> name,
     path |-> fullPath,
     type |-> IF node.kind = "symlink" THEN "symlink"
              ELSE IF node.kind = "dir" THEN "directory" ELSE "file",
     size |-> IF node.kind = "dir" THEN -1 ELSE StSize(node),
     isHidden |-> name[1] = 46,
     depth |-> depth]

RECURSIVE search_directory(_, _, _, _, _)
RECURSIVE SearchEntries(_, _, _, _, _, _)

\* the readdir loop of search_directory over the remaining entries: the
\* steps taken, an "entry" for each N8N_FileInfo stored in files[] and, from
\* the recursive calls, an "opendir" for each directory opened
SearchEntries(f, currentPath, currentDepth, entries, options, ord) ==
    IF entries = << >> THEN << >>
    ELSE LET name == Head(entries)
             rest == Tail(entries)
             fullPath == Append(currentPath, name)
             st == IF options.followSymlinks THEN stat(f, fullPath) ELSE lstat(f, fullPath)
         IN  IF ~options.showHidden /\ name[1] = 46
             THEN SearchEntries(f, currentPath, currentDepth, rest, options, ord)
             ELSE IF options.filter # << >> /\ ~IsSubstr(options.filter, name)
             THEN SearchEntries(f, currentPath, currentDepth, rest, options, ord)
             ELSE IF st.err # "OK"
             THEN SearchEntries(f, currentPath, currentDepth, rest, options, ord)
             ELSE << [call |-> "entry", path |-> fullPath, err |-> "OK",
                      info |-> N8nFileInfo(name, fullPath, st.node, currentDepth)] >>
                  \o (IF options.recursive /\ st.node.kind = "dir"
                      THEN search_directory(f, fullPath, currentDepth + 1, options, ord)
                      ELSE << >>)
                  \o SearchEntries(f, currentPath, currentDepth, rest, options, ord)

\* a search_directory that opens the directory whatever the depth
search_directory_any_depth(f, currentPath, currentDepth, options, ord) ==
    LET d == opendir(f, currentPath, ord)
    IN  << Event("opendir", currentPath, d.err) >>
        \o (IF d.err # "OK" THEN << >>
            ELSE SearchEntries(f, currentPath, currentDepth, d.entries, options, ord))

search_directory(f, currentPath, currentDepth, options, ord) ==
    IF currentDepth > options.maxDepth THEN << >>
    ELSE LET d == opendir(f, currentPath, ord)
         IN  << Event("opendir", currentPath, d.err) >>
             \o (IF d.err # "OK" THEN << >>
                 ELSE SearchEntries(f, currentPath, currentDepth, d.entries, options, ord))

\* (the return taken when malloc of files[] fails is left out: it lists
\* nothing and opens nothing)
n8n_list_files(f, path, options, ord) ==
    LET steps == search_directory(f, path, 0, options, ord)
        stored == SelectSeq(steps, LAMBDA e : e.call = "entry")
    IN  [success |-> TRUE, errorCode |-> "0", message |-> "Found files in directory",
         data |-> [i \in DOMAIN stored |-> stored[i].info],
         log |-> SelectSeq(steps, LAMBDA e : e.call = "opendir")]

(***************************************************************************)
(* Initial filesystems: every tree of at most MaxNodes nodes.              *)
(***************************************************************************)
EmptyFS == [p \in Paths |-> IF p = Root THEN DirNode ELSE NoNode]
LeafVals == { DirNode } \cup { FileNode(d) : d \in Data } \cup { LinkNode(t) : t \in TopPaths }
FreeSlots(f) == { p \in Paths : f[p].kind = "none" /\ f[Parent(p)].kind = "dir" }

RECURSIVE Trees(_)
Trees(n) ==
    IF n = 0 THEN { EmptyFS }
    ELSE LET smaller == Trees(n - 1)
         IN  smaller \cup
             UNION { { [f EXCEPT ![p] = v] : p \in FreeSlots(f), v \in LeafVals } : f \in smaller }

NoCmd == [op |-> "none"]
NoRes == [ok |-> FALSE, err |-> "OK", message |-> "", out |-> << >>]
\* the JSON a navigator command prints: {"success":true,...} or {"error":"..."}
Result(r) == [ok |-> r.ok, err |-> r.err, message |-> IF r.ok THEN "success" ELSE "error",
              out |-> << >>]

\* the order readdir hands entries out matters only to a directory with
\* several entries
OrdersOf(f) == IF \E p \in Paths : Cardinality(Children(f, p)) > 1 THEN Orders ELSE { SomeOrder }

\* no ProjectAnalyzer has been constructed
NoAnalyzer == [calls |-> "none"]
\* a navigator that runs a single command on absolute paths
NoSession == [open |-> FALSE]

\* the library used without the navigator process
NoHost == [pc |-> "none"]

\* a process that has created no monitor
NoMonitor == [pcRun |-> "none", pcStop |-> "none"]

Init ==
    /\ fs \in Trees(MaxNodes)
    /\ pre = fs
    /\ cmd = NoCmd
    /\ res = NoRes
    /\ log = << >>
    /\ mon = NoMonitor
    /\ host = NoHost
    /\ analyzer = NoAnalyzer
    /\ nav = NoSession

(***************************************************************************)
(* The navigator process runs one command (main of navigator.cpp).         *)
(***************************************************************************)
Delete ==
    /\ cmd.op = "none"
    /\ \E p \in Paths, recursive \in BOOLEAN, ord \in OrdersOf(fs) :
         LET r == delete_item(fs, p, recursive, ord)
         IN  /\ fs' = r.fs
             /\ cmd' = [op |-> "delete", path |-> p, recursive |-> recursive]
             /\ res' = Result(r)
             /\ log' = r.log
    /\ UNCHANGED << pre, mon, host, analyzer, nav >>

Mkdir ==
    /\ cmd.op = "none"
    /\ \E p \in Paths, parents \in BOOLEAN :
         LET r == create_directory(fs, p, parents)
         IN  /\ fs' = r.fs
             /\ cmd' = [op |-> "mkdir", path |-> p, parents |-> parents]
             /\ res' = Result(r)
             /\ log' = r.log
    /\ UNCHANGED << pre, mon, host, analyzer, nav >>

Copy ==
    /\ cmd.op = "none"
    /\ \E src \in Paths, dst \in Paths, recursive \in BOOLEAN, ord \in OrdersOf(fs),
          enospc \in BOOLEAN :
         LET r == copy_item(fs, << >>, src, dst, recursive, ord, enospc)
         IN  /\ fs' = r.fs
             /\ cmd' = [op |-> "copy", src |-> src, dst |-> dst, recursive |-> recursive,
                        enospc |-> enospc]
             /\ res' = Result(r)
             /\ log' = r.log
    /\ UNCHANGED << pre, mon, host, analyzer, nav >>

Move ==
    /\ cmd.op = "none"
    /\ \E src \in Paths, dst \in Paths :
         LET r == move_item(fs, src, dst)
         IN  /\ fs' = r.fs
             /\ cmd' = [op |-> "move", src |-> src, dst |-> dst]
             /\ res' = Result(r)
             /\ log' = r.log
    /\ UNCHANGED << pre, mon, host, analyzer, nav >>

Rename ==
    /\ cmd.op = "none"
    /\ \E old_name \in Paths, new_name \in Paths :
         LET r == rename_item(fs, old_name, new_name)
         IN  /\ fs' = r.fs
             /\ cmd' = [op |-> "rename", src |-> old_name, dst |-> new_name]
             /\ res' = Result(r)
             /\ log' = r.log
    /\ UNCHANGED << pre, mon, host, analyzer, nav >>

List ==
    /\ cmd.op = "none"
    /\ \E p \in Paths, ord \in OrdersOf(fs) :
         /\ cmd' = [op |-> "list", path |-> p]
         /\ res' = list_files(fs, p, ord)
    /\ log' = << >>
    /\ UNCHANGED << fs, pre, mon, host, analyzer, nav >>

Next == Delete \/ Mkdir \/ Copy \/ Move \/ Rename \/ List

Spec == Init /\ [][Next]_vars

(***************************************************************************)
(* A host calls one entry point of the native library (file_utils.c).      *)
(***************************************************************************)
N8nResult(r, out) ==
    [ok |-> r.success, err |-> r.errorCode, message |-> r.message, out |-> out]

\* the I/O failures that can strike a copy of src: of readlink on a link, of
\* a write of file data
FaultsOn(f, src) ==
    LET kind == lstat(f, src).node.kind
    IN  IF kind = "symlink" THEN {"none", "readlink"}
        ELSE IF kind = "file" THEN {"none", "write"}
        ELSE {"none"}

N8nCopyFile ==
    /\ cmd.op = "none"
    /\ \E src \in Paths, dst \in Paths, options \in CopyOptions :
       \E fault \in FaultsOn(fs, src) :
         LET r == n8n_copy_file(fs, << >>, src, dst, options, fault = "readlink", fault = "write")
         IN  /\ fs' = r.fs
             /\ cmd' = [op |-> "n8n_copy_file", src |-> src, dst |-> dst, recursive |-> TRUE,
                        options |-> options, fault |-> fault]
             /\ res' = N8nResult(r, << >>)
             /\ log' = r.log
    /\ UNCHANGED << pre, mon, host, analyzer, nav >>

NextCopyFile == N8nCopyFile

SpecCopyFile == Init /\ [][NextCopyFile]_vars

\* the pairs a batch is made of
BatchPairs == TopPaths \X TopPaths
Batches == UNION { [1..n -> BatchPairs] : n \in 1..MaxBatch }

N8nBatchCopy ==
    /\ cmd.op = "none"
    /\ \E batch \in Batches, overwrite \in BOOLEAN, nomem \in BOOLEAN :
         LET sources == [i \in DOMAIN batch |-> batch[i][1]]
             destinations == [i \in DOMAIN batch |-> batch[i][2]]
             r == n8n_batch_copy(fs, sources, destinations,
                                 [overwrite |-> overwrite, createDestDir |-> FALSE], nomem)
         IN  /\ fs' = r.fs
             /\ cmd' = [op |-> "n8n_batch_copy", sources |-> sources,
                        destinations |-> destinations, overwrite |-> overwrite,
                        nomem |-> nomem]
             /\ res' = N8nResult(r, r.data)
             /\ log' = r.log
    /\ UNCHANGED << pre, mon, host, analyzer, nav >>

NextBatch == N8nBatchCopy

SpecBatch == Init /\ [][NextBatch]_vars

N8nListFiles ==
    /\ cmd.op = "none"
    /\ \E p \in Paths, options \in ListOptions, ord \in OrdersOf(fs) :
         LET r == n8n_list_files(fs, p, options, ord)
         IN  /\ cmd' = [op |-> "n8n_list_files", path |-> p, options |-> options, ord |-> ord]
             /\ res' = N8nResult(r, r.data)
             /\ log' = r.log
    /\ UNCHANGED << fs, pre, mon, host, analyzer, nav >>

(***************************************************************************)
(* The navigator process runs the search command.                          *)
(***************************************************************************)
Patterns == { << 46 >>, << 97 >> }

Search ==
    /\ cmd.op = "none"
    /\ \E pattern \in Patterns, recursive \in BOOLEAN, p \in Paths, ord \in OrdersOf(fs) :
         LET r == search_files(fs, pattern, recursive, p, ord)
         IN  /\ cmd' = [op |-> "search", pattern |-> pattern, recursive |-> recursive,
                        path |-> p, ord |-> ord]
             /\ res' = [ok |-> r.ok, err |-> r.err, message |-> r.message, out |-> r.out]
             /\ log' = r.log
    /\ UNCHANGED << fs, pre, mon, host, analyzer, nav >>

(***************************************************************************)
(* The info command of the navigator and get_n8n_file_info of the library. *)
(***************************************************************************)
\* the text after the last "/" of a path
LastName(path) == IF path = Root THEN << >> ELSE path[Len(path)]

\* FileNavigator::get_info with an argument: the entry it prints
get_info(f, file_path) ==
    LET st == lstat(f, file_path)
        is_dir == st.node.kind = "dir"
        is_link == st.node.kind = "symlink"
    IN  IF st.err # "OK"
        THEN [ok |-> FALSE, err |-> st.err, message |-> "File not found", out |-> << >>]
        ELSE [ok |-> TRUE, err |-> "OK", message |-> "",
              out |-> << [name |-> LastName(file_path), path |-> file_path,
                          type |-> IF is_link THEN "symlink"
                                   ELSE IF is_dir THEN "directory" ELSE "file",
                          size |-> IF is_dir THEN 0 ELSE StSize(st.node),
                          symlinkTarget |-> IF is_link THEN st.node.target ELSE << >>] >>]

\* get_n8n_file_info: errno, or 0 and the N8N_FileInfo it fills
get_n8n_file_info(f, path) ==
    LET st == lstat(f, path)
        isDirectory == st.node.kind = "dir"
    IN  IF st.err # "OK"
        THEN [ok |-> FALSE, err |-> st.err, message |-> "", out |-> << >>]
        ELSE [ok |-> TRUE, err |-> "OK", message |-> "",
              out |-> << [name |-> LastName(path), path |-> path,
                          type |-> IF st.node.kind = "symlink" THEN "symlink"
                                   ELSE IF isDirectory THEN "directory" ELSE "file",
                          size |-> IF isDirectory THEN -1 ELSE StSize(st.node),
                          symlinkTarget |-> IF st.node.kind = "symlink" THEN st.node.target
                                            ELSE << >>,
                          depth |-> 0] >>]

Info ==
    /\ cmd.op = "none"
    /\ \E p \in Paths :
         /\ cmd' = [op |-> "info", path |-> p]
         /\ res' = get_info(fs, p)
    /\ log' = << >>
    /\ UNCHANGED << fs, pre, mon, host, analyzer, nav >>

N8nGetFileInfo ==
    /\ cmd.op = "none"
    /\ \E p \in Paths :
         /\ cmd' = [op |-> "get_n8n_file_info", path |-> p]
         /\ res' = get_n8n_file_info(fs, p)
    /\ log' = << >>
    /\ UNCHANGED << fs, pre, mon, host, analyzer, nav >>

NextList == N8nListFiles \/ List \/ Search

SpecList == Init /\ [][NextList]_vars

NextInfo == Info \/ N8nGetFileInfo \/ List \/ Search

SpecInfo == Init /\ [][NextInfo]_vars

NextSearch == Search

SpecSearch == Init /\ [][NextSearch]_vars

(***************************************************************************)
(* One FileNavigator object runs a sequence of commands.  current_path is  *)
(* set by the constructor from getcwd and is the prefix get_absolute_path  *)
(* puts before every relative argument.  cmd holds the last command, res   *)
(* what it printed, pre the tree it started from; the system calls of a    *)
(* session are not traced.                                                 *)
(***************************************************************************)
\* the argument texts: "", ".", "..", a text that starts with '/', and a
\* relative text that is one name
Args == [kind : {"empty", "dot", "dotdot"}, path : { Root }]
            \cup [kind : {"abs"}, path : Paths]
            \cup [kind : {"rel"}, path : TopPaths]

get_absolute_path(current_path, path) ==
    IF path.kind = "empty" THEN current_path
    ELSE IF path.kind = "abs" THEN path.path
    ELSE IF path.kind = "dot" THEN current_path
    ELSE IF path.kind = "dotdot"
    THEN IF Len(current_path) <= 1 THEN Root ELSE Parent(current_path)
    ELSE current_path \o path.path

\* the arguments whose absolute path is no deeper than the modelled tree
ArgsAt(current_path) == { a \in Args : get_absolute_path(current_path, a) \in Paths }
\* no argument, or one
OptArgsAt(current_path) == { << >> } \cup { << a >> : a \in ArgsAt(current_path) }

\* getcwd: the name of a directory without any symbolic link in it
WorkingDirectories(f) ==
    { p \in Paths : f[p].kind = "dir" /\ Resolve(f, p, TRUE).path = p }

\* a cd that takes the text it was given for the new current path, whether
\* or not a directory stands there
change_directory_unchecked(f, current_path, args, fault) ==
    IF args = << >> THEN [ok |-> FALSE, err |-> "NO_PATH", current_path |-> current_path]
    ELSE [ok |-> is_directory(f, get_absolute_path(current_path, args[1])), err |-> "OK",
          current_path |-> get_absolute_path(current_path, args[1])]

\* fault: chdir fails (EACCES: no search permission), or getcwd fails
change_directory(f, current_path, args, fault) ==
    IF args = << >> THEN [ok |-> FALSE, err |-> "NO_PATH", current_path |-> current_path]
    ELSE LET new_path == get_absolute_path(current_path, args[1])
         IN  IF ~is_directory(f, new_path)
             THEN [ok |-> FALSE, err |-> "ENOTDIR", current_path |-> current_path]
             ELSE IF fault = "chdir"
             THEN [ok |-> FALSE, err |-> "EACCES", current_path |-> current_path]
             ELSE [ok |-> TRUE, err |-> "OK",
                   current_path |-> IF fault = "getcwd" THEN current_path
                                    ELSE Resolve(f, new_path, TRUE).path]

get_current_path(current_path) ==
    [ok |-> TRUE, err |-> "OK", message |-> "currentPath", out |-> << current_path >>]

\* get_info without an argument: the current path and its number of items
get_info_here(f, current_path, ord) ==
    [ok |-> TRUE, err |-> "OK", message |-> "",
     out |-> << [path |-> current_path,
                 itemCount |-> Len(get_directory_contents(f, current_path, ord))] >>]

\* statvfs succeeds on every path that resolves
get_disk_info(f, path) ==
    IF access(f, path)
    THEN [ok |-> TRUE, err |-> "OK", message |-> "success", out |-> << path >>]
    ELSE [ok |-> FALSE, err |-> stat(f, path).err, message |-> "error", out |-> << >>]

\* the navigator after the constructor
NewSession(current_path) ==
    [open |-> TRUE, current_path |-> current_path, before |-> current_path, count |-> 0]
\* the navigator once a command was taken up that leaves current_path alone
Kept == [nav EXCEPT !.before = nav.current_path, !.count = @ + 1]

InitSession ==
    /\ fs \in Trees(SessionNodes)
    /\ pre = fs
    /\ cmd = NoCmd
    /\ res = NoRes
    /\ log = << >>
    /\ mon = NoMonitor
    /\ host = NoHost
    /\ analyzer = NoAnalyzer
    /\ nav \in { NewSession(p) : p \in WorkingDirectories(fs) }

\* execute_command is called at most MaxCommands times
InSession == nav.open /\ nav.count < MaxCommands

SessionCd ==
    /\ InSession
    /\ \E args \in OptArgsAt(nav.current_path), fault \in {"none", "chdir", "getcwd"} :
         LET r == change_directory(fs, nav.current_path, args, fault)
         IN  /\ nav' = [Kept EXCEPT !.current_path = r.current_path]
             /\ cmd' = [op |-> "cd", args |-> args, fault |-> fault]
             /\ res' = [ok |-> r.ok, err |-> r.err, message |-> IF r.ok THEN "success" ELSE "error",
                        out |-> << >>]
    /\ pre' = fs
    /\ log' = << >>
    /\ UNCHANGED << fs, mon, host, analyzer >>

SessionPwd ==
    /\ InSession
    /\ cmd' = [op |-> "pwd"]
    /\ res' = get_current_path(nav.current_path)
    /\ nav' = Kept
    /\ pre' = fs
    /\ log' = << >>
    /\ UNCHANGED << fs, mon, host, analyzer >>

SessionList ==
    /\ InSession
    /\ \E args \in OptArgsAt(nav.current_path), ord \in OrdersOf(fs) :
         LET path == IF args = << >> THEN nav.current_path
                     ELSE get_absolute_path(nav.current_path, args[1])
         IN  /\ cmd' = [op |-> "list", path |-> path]
             /\ res' = list_files(fs, path, ord)
    /\ nav' = Kept
    /\ pre' = fs
    /\ log' = << >>
    /\ UNCHANGED << fs, mon, host, analyzer >>

SessionSearch ==
    /\ InSession
    /\ \E pattern \in Patterns, recursive \in BOOLEAN, args \in OptArgsAt(nav.current_path),
          ord \in OrdersOf(fs) :
         LET start_path == IF args = << >> THEN nav.current_path
                           ELSE get_absolute_path(nav.current_path, args[1])
             r == search_files(fs, pattern, recursive, start_path, ord)
         IN  /\ cmd' = [op |-> "search", pattern |-> pattern, recursive |-> recursive,
                        path |-> start_path, ord |-> ord]
             /\ res' = [ok |-> r.ok, err |-> r.err, message |-> r.message, out |-> r.out]
             /\ log' = r.log
    /\ nav' = Kept
    /\ pre' = fs
    /\ UNCHANGED << fs, mon, host, analyzer >>

SessionInfo ==
    /\ InSession
    /\ \E args \in OptArgsAt(nav.current_path), ord \in OrdersOf(fs) :
         /\ cmd' = [op |-> "info", args |-> args]
         /\ res' = IF args = << >> THEN get_info_here(fs, nav.current_path, ord)
                   ELSE get_info(fs, get_absolute_path(nav.current_path, args[1]))
    /\ nav' = Kept
    /\ pre' = fs
    /\ log' = << >>
    /\ UNCHANGED << fs, mon, host, analyzer >>

SessionDiskInfo ==
    /\ InSession
    /\ \E args \in OptArgsAt(nav.current_path) :
         LET path == IF args = << >> THEN nav.current_path
                     ELSE get_absolute_path(nav.current_path, args[1])
         IN  /\ cmd' = [op |-> "diskinfo", path |-> path]
             /\ res' = get_disk_info(fs, path)
    /\ nav' = Kept
    /\ pre' = fs
    /\ log' = << >>
    /\ UNCHANGED << fs, mon, host, analyzer >>

SessionUnknown ==
    /\ InSession
    /\ cmd' = [op |-> "unknown"]
    /\ res' = [ok |-> FALSE, err |-> "UNKNOWN_COMMAND", message |-> "error", out |-> << >>]
    /\ nav' = Kept
    /\ pre' = fs
    /\ log' = << >>
    /\ UNCHANGED << fs, mon, host, analyzer >>

SessionMkdir ==
    /\ InSession
    /\ \E a \in ArgsAt(nav.current_path), parents \in BOOLEAN :
         LET full_path == get_absolute_path(nav.current_path, a)
             r == create_directory(fs, full_path, parents)
         IN  /\ fs' = r.fs
             /\ cmd' = [op |-> "mkdir"]
             /\ res' = Result(r)
    /\ nav' = Kept
    /\ pre' = fs
    /\ log' = << >>
    /\ UNCHANGED << mon, host, analyzer >>

SessionDelete ==
    /\ InSession
    /\ \E a \in ArgsAt(nav.current_path), recursive \in BOOLEAN, ord \in OrdersOf(fs) :
         LET item_path == get_absolute_path(nav.current_path, a)
             r == delete_item(fs, item_path, recursive, ord)
         IN  /\ fs' = r.fs
             /\ cmd' = [op |-> "delete"]
             /\ res' = Result(r)
    /\ nav' = Kept
    /\ pre' = fs
    /\ log' = << >>
    /\ UNCHANGED << mon, host, analyzer >>

SessionCopy ==
    /\ InSession
    /\ \E a \in ArgsAt(nav.current_path), b \in ArgsAt(nav.current_path), recursive \in BOOLEAN,
          ord \in OrdersOf(fs), enospc \in BOOLEAN :
         LET src == get_absolute_path(nav.current_path, a)
             dst == get_absolute_path(nav.current_path, b)
             r == copy_item(fs, << >>, src, dst, recursive, ord, enospc)
         IN  /\ fs' = r.fs
             /\ cmd' = [op |-> "copy"]
             /\ res' = Result(r)
    /\ nav' = Kept
    /\ pre' = fs
    /\ log' = << >>
    /\ UNCHANGED << mon, host, analyzer >>

SessionMove ==
    /\ InSession
    /\ \E a \in ArgsAt(nav.current_path), b \in ArgsAt(nav.current_path) :
         LET src == get_absolute_path(nav.current_path, a)
             dst == get_absolute_path(nav.current_path, b)
             r == move_item(fs, src, dst)
         IN  /\ fs' = r.fs
             /\ cmd' = [op |-> "move"]
             /\ res' = Result(r)
    /\ nav' = Kept
    /\ pre' = fs
    /\ log' = << >>
    /\ UNCHANGED << mon, host, analyzer >>

SessionRename ==
    /\ InSession
    /\ \E a \in ArgsAt(nav.current_path), b \in ArgsAt(nav.current_path) :
         LET old_name == get_absolute_path(nav.current_path, a)
             new_name == get_absolute_path(nav.current_path, b)
             r == rename_item(fs, old_name, new_name)
         IN  /\ fs' = r.fs
             /\ cmd' = [op |-> "rename"]
             /\ res' = Result(r)
    /\ nav' = Kept
    /\ pre' = fs
    /\ log' = << >>
    /\ UNCHANGED << mon, host, analyzer >>

NextSession ==
    \/ SessionCd \/ SessionPwd \/ SessionList \/ SessionSearch \/ SessionInfo
    \/ SessionDiskInfo \/ SessionUnknown \/ SessionMkdir \/ SessionDelete
    \/ SessionCopy \/ SessionMove \/ SessionRename

SpecSession == InitSession /\ [][NextSession]_vars

(***************************************************************************)
(* file_utils.c: the directory monitor.  One thread calls                  *)
(* n8n_start_monitor, another calls n8n_stop_monitor, and the kernel       *)
(* queues an inotify record for every change in the watched directory.     *)
(* monitor->running is a plain bool; the loop calls read, usleep and the   *)
(* callback between two tests of it, so every test loads it from memory.   *)
(***************************************************************************)
\* the inotify records the watch can deliver: a change of an entry carries
\* the entry's name, a change of the watched directory itself (IN_ATTRIB)
\* and the removal of the watch (IN_IGNORED) carry none (len = 0)
EntryMasks == {"IN_CREATE", "IN_DELETE", "IN_MODIFY", "IN_MOVED_FROM", "IN_MOVED_TO", "IN_ATTRIB"}
Changes == [mask : EntryMasks, name : { << 97 >> }] \cup { [mask |-> "IN_ATTRIB", name |-> << >>] }
Ignored == [mask |-> "IN_IGNORED", name |-> << >>]

\* the if / else if chain of n8n_start_monitor from the mask to the action
ActionCode(mask) ==
    IF mask = "IN_CREATE" THEN 1
    ELSE IF mask = "IN_DELETE" THEN 2
    ELSE IF mask = "IN_MODIFY" THEN 3
    ELSE IF mask = "IN_MOVED_FROM" THEN 4
    ELSE IF mask = "IN_MOVED_TO" THEN 5
    ELSE IF mask = "IN_ATTRIB" THEN 6
    ELSE 0

\* the for loop over the records of the buffer: the callbacks it makes
Callbacks(callback, buffer) ==
    LET named == SelectSeq(buffer, LAMBDA event : callback /\ Len(event.name) > 0)
    IN  [i \in DOMAIN named |-> [name |-> named[i].name, action |-> ActionCode(named[i].mask)]]

\* the monitor n8n_create_monitor returns, with both descriptors open
Created(callback) ==
    [running |-> FALSE, inotify_fd |-> TRUE, watch_fd |-> TRUE, callback |-> callback,
     queue |-> << >>,      \* records the kernel holds for inotify_fd
     buffer |-> << >>,     \* records the last read put into buffer
     decoded |-> << >>,    \* every record read so far
     calls |-> << >>,      \* every callback made so far
     failed |-> 0,         \* reads that returned <= 0
     slept |-> 0,          \* backoffs taken
     changes |-> 0,        \* changes that happened in the directory
     stops |-> 0,          \* calls of n8n_stop_monitor
     stale |-> {},         \* system calls made on a descriptor after close released it
     during |-> "none",    \* where n8n_start_monitor was when n8n_stop_monitor was called
     pcRun |-> "idle", pcStop |-> "idle"]

InitMonitor ==
    /\ fs = EmptyFS
    /\ pre = fs
    /\ cmd = NoCmd
    /\ res = NoRes
    /\ log = << >>
    /\ mon \in { Created(callback) : callback \in BOOLEAN }
    /\ host = NoHost
    /\ analyzer = NoAnalyzer
    /\ nav = NoSession

\* something changes in the watched directory
Change ==
    /\ mon.pcRun # "none" /\ mon.watch_fd /\ mon.changes < MaxEvents
    /\ \E event \in Changes :
         mon' = [mon EXCEPT !.queue = Append(@, event), !.changes = @ + 1]
    /\ UNCHANGED << fs, pre, cmd, res, log, host, analyzer, nav >>

\* n8n_start_monitor: if (!monitor || monitor->running) return;
StartEnter ==
    /\ mon.pcRun = "idle"
    /\ mon' = [mon EXCEPT !.pcRun = IF mon.running THEN "done" ELSE "set"]
    /\ UNCHANGED << fs, pre, cmd, res, log, host, analyzer, nav >>

\* monitor->running = true;
StartSet ==
    /\ mon.pcRun = "set"
    /\ mon' = [mon EXCEPT !.running = TRUE, !.pcRun = "test"]
    /\ UNCHANGED << fs, pre, cmd, res, log, host, analyzer, nav >>

\* while (monitor->running)
StartTest ==
    /\ mon.pcRun = "test"
    /\ mon' = [mon EXCEPT !.pcRun = IF mon.running THEN "read" ELSE "done"]
    /\ UNCHANGED << fs, pre, cmd, res, log, host, analyzer, nav >>

\* read(inotify_fd, ...) is entered: EBADF on a closed descriptor, the
\* queued records if there are any, else the thread blocks
StartRead ==
    /\ mon.pcRun = "read"
    /\ mon' = IF ~mon.inotify_fd
              THEN [mon EXCEPT !.failed = 1, !.stale = @ \cup {"read"}, !.pcRun = "sleep"]
              ELSE IF mon.queue # << >>
              THEN [mon EXCEPT !.buffer = mon.queue, !.decoded = @ \o mon.queue,
                               !.queue = << >>, !.pcRun = "dispatch"]
              ELSE [mon EXCEPT !.pcRun = "blocked"]
    /\ UNCHANGED << fs, pre, cmd, res, log, host, analyzer, nav >>

\* a blocked read returns: with the records that arrived, or with -1 when a
\* signal interrupts it
StartWake ==
    /\ mon.pcRun = "blocked"
    /\ \/ /\ mon.queue # << >>
          /\ mon' = [mon EXCEPT !.buffer = mon.queue, !.decoded = @ \o mon.queue,
                                !.queue = << >>, !.pcRun = "dispatch"]
       \/ /\ mon.queue = << >> /\ mon.failed = 0
          /\ mon' = [mon EXCEPT !.failed = 1, !.pcRun = "sleep"]
    /\ UNCHANGED << fs, pre, cmd, res, log, host, analyzer, nav >>

\* if (length <= 0) { usleep(100000); continue; }
StartSleep ==
    /\ mon.pcRun = "sleep"
    /\ mon' = [mon EXCEPT !.slept = 1, !.pcRun = "test"]
    /\ UNCHANGED << fs, pre, cmd, res, log, host, analyzer, nav >>

\* the for loop over the records of the buffer
StartDispatch ==
    /\ mon.pcRun = "dispatch"
    /\ mon' = [mon EXCEPT !.calls = @ \o Callbacks(mon.callback, mon.buffer),
                          !.buffer = << >>, !.pcRun = "test"]
    /\ UNCHANGED << fs, pre, cmd, res, log, host, analyzer, nav >>

\* n8n_stop_monitor: monitor->running = false;
StopClear ==
    /\ mon.pcStop \in {"idle", "done"} /\ mon.stops < MaxStops
    /\ mon' = [mon EXCEPT !.running = FALSE, !.stops = @ + 1,
                          !.during = IF mon.pcStop = "idle" THEN mon.pcRun ELSE @,
                          !.pcStop = "rm_watch"]
    /\ UNCHANGED << fs, pre, cmd, res, log, host, analyzer, nav >>

\* if (monitor->watch_fd >= 0) inotify_rm_watch(inotify_fd, watch_fd): the
\* number in watch_fd is never reset, so the call is always made; on an
\* open descriptor the kernel queues IN_IGNORED
StopRmWatch ==
    /\ mon.pcStop = "rm_watch"
    /\ mon' = IF mon.inotify_fd /\ mon.watch_fd
              THEN [mon EXCEPT !.watch_fd = FALSE, !.queue = Append(@, Ignored),
                               !.pcStop = "close"]
              ELSE [mon EXCEPT !.stale = @ \cup {"inotify_rm_watch"}, !.pcStop = "close"]
    /\ UNCHANGED << fs, pre, cmd, res, log, host, analyzer, nav >>

\* if (monitor->inotify_fd >= 0) close(inotify_fd): the number in
\* inotify_fd is never reset either
StopClose ==
    /\ mon.pcStop = "close"
    /\ mon' = [mon EXCEPT !.inotify_fd = FALSE, !.watch_fd = FALSE,
                          !.stale = IF mon.inotify_fd THEN @ ELSE @ \cup {"close"},
                          !.pcStop = "done"]
    /\ UNCHANGED << fs, pre, cmd, res, log, host, analyzer, nav >>

RunThread == StartEnter \/ StartSet \/ StartTest \/ StartRead \/ StartWake \/ StartSleep \/ StartDispatch
StopThread == StopClear \/ StopRmWatch \/ StopClose

NextMonitor == Change \/ RunThread \/ StopThread

SpecMonitor == InitMonitor /\ [][NextMonitor]_vars

\* both threads are scheduled; whether and when the host calls
\* n8n_stop_monitor, and whether anything changes in the directory, is open
SpecMonitorFair ==
    /\ SpecMonitor
    /\ WF_vars(RunThread)
    /\ WF_vars(StopRmWatch) /\ WF_vars(StopClose)

(***************************************************************************)
(* fileops_loader.cpp and main.cpp: the navigator process.  It looks for   *)
(* the backend library, then dispatches the command of its command line.   *)
(***************************************************************************)
Null == "null"
EnvPath == "/opt/fileops/libfileops.so"          \* a value of FILEOPS_LIB_PATH
DefaultPath == "/Core/build/bin/libfileops.so"
RelativePath == "./libfileops.so"
SystemPath == "/usr/local/lib/libfileops.so"
LibPaths == {EnvPath, DefaultPath, RelativePath, SystemPath}

\* the entry points loadLibrary requires, and the alias getFunction tries
Required == {"list_files", "copy_file", "file_exists", "is_directory"}
Prefixed(name) ==
    CASE name = "list_files" -> "n8n_list_files"
      [] name = "copy_file" -> "n8n_copy_file"
      [] name = "file_exists" -> "n8n_file_exists"
      [] name = "is_directory" -> "n8n_is_directory"

\* what may be found at a path: nothing dlopen can load, or a library
\* with some of the entry points under some of their names
Absent == [opens |-> FALSE, symbols |-> {}]
Library(symbols) == [opens |-> TRUE, symbols |-> symbols]
Libraries ==
    { Absent,
      Library(Required),
      Library({ Prefixed(name) : name \in Required }),
      Library({"list_files", "n8n_copy_file", "file_exists", "n8n_is_directory"}),
      Library({"list_files", "copy_file", "file_exists"}),
      Library({"n8n_list_files", "n8n_copy_file", "n8n_is_directory", "is_directory"}),
      Library({}) }

\* dlopen: the handle of the library at the path, named by the path
dlopen(libs, path) == IF path \in DOMAIN libs /\ libs[path].opens THEN path ELSE Null
\* dlsym: the symbol found in the library, named by its name
dlsym(libs, handle, symbol) == IF symbol \in libs[handle].symbols THEN symbol ELSE Null

\* FileOpsLoader::getFunction: the plain name, then the prefixed name, then
\* the alternative name, which is the prefixed name once more
getFunction(libs, handle, name) ==
    IF handle = Null THEN Null
    ELSE IF dlsym(libs, handle, name) # Null THEN dlsym(libs, handle, name)
    ELSE IF dlsym(libs, handle, Prefixed(name)) # Null THEN dlsym(libs, handle, Prefixed(name))
    ELSE dlsym(libs, handle, Prefixed(name))

\* FileOpsLoader::FileOpsLoader
NewLoader ==
    [handle |-> Null, loaded |-> FALSE, last_error |-> "",
     table |-> [name \in Required |-> Null],
     held |-> {}]          \* the handles dlopen gave that dlclose has not released

\* the first steps of loadLibrary: the release of the library held, the
\* choice of the path, dlopen of it and dlopen of the relative path after it
OpenLibrary(loader, libs, env, library_path) ==
    LET held == IF loader.handle # Null THEN loader.held \ {loader.handle} ELSE loader.held
        loaded == IF loader.handle # Null THEN FALSE ELSE loader.loaded
        path == IF library_path # "" THEN library_path
                ELSE IF env # Null THEN env ELSE DefaultPath
        first == dlopen(libs, path)
        second == dlopen(libs, RelativePath)
        handle == IF first # Null THEN first ELSE second
    IN  [loader |-> [loader EXCEPT !.handle = handle, !.loaded = loaded,
                                   !.held = IF handle # Null THEN held \cup {handle} ELSE held,
                                   !.last_error = IF first # Null THEN @ ELSE "dlerror"],
         tried |-> IF first # Null THEN << path >> ELSE << path, RelativePath >>]

\* loadLibrary that keeps the library open when an entry point is missing
loadLibrary_keeps_handle(loader, libs, env, library_path) ==
    LET open == OpenLibrary(loader, libs, env, library_path)
        handle == open.loader.handle
        ptrs == [name \in Required |-> getFunction(libs, handle, name)]
    IN  IF handle = Null
        THEN [ret |-> FALSE, loader |-> open.loader, tried |-> open.tried, opened |-> Null]
        ELSE IF \E name \in Required : ptrs[name] = Null
        THEN [ret |-> FALSE,
              loader |-> [open.loader EXCEPT !.last_error = "Failed to load required functions"],
              tried |-> open.tried, opened |-> handle]
        ELSE [ret |-> TRUE,
              loader |-> [open.loader EXCEPT !.table = ptrs, !.loaded = TRUE],
              tried |-> open.tried, opened |-> handle]

\* FileOpsLoader::loadLibrary: its return value, the loader after it, the
\* paths it gave to dlopen in order and the library it opened
loadLibrary(loader, libs, env, library_path) ==
    LET open == OpenLibrary(loader, libs, env, library_path)
        handle == open.loader.handle
        ptrs == [name \in Required |-> getFunction(libs, handle, name)]
    IN  IF handle = Null
        THEN [ret |-> FALSE, loader |-> open.loader, tried |-> open.tried, opened |-> Null]
        ELSE IF \E name \in Required : ptrs[name] = Null
        THEN [ret |-> FALSE,
              loader |-> [open.loader EXCEPT !.last_error = "Failed to load required functions",
                                             !.held = @ \ {handle}, !.handle = Null],
              tried |-> open.tried, opened |-> handle]
        ELSE [ret |-> TRUE,
              loader |-> [open.loader EXCEPT !.table = ptrs, !.loaded = TRUE],
              tried |-> open.tried, opened |-> handle]

\* FileOpsLoader::isLoaded, FileOpsLoader::getError
isLoaded(loader) == loader.loaded
getError(loader) == loader.last_error

\* main.cpp: is_library_available
is_library_available(h) == h.available /\ isLoaded(h.loader)

\* the command lines: none, a flag of main, a command of the navigator, or
\* a word that is no command
Flags == {"--help", "-h", "help", "--version", "-v", "--lib-status"}
KnownCommands == {"list", "cd", "search", "info", "mkdir", "delete", "copy", "move",
                  "rename", "pwd", "diskinfo"}
CommandLines == {Null} \cup Flags \cup KnownCommands \cup {"frobnicate"}

\* the process when main is entered, in some environment
Started(env, libs) ==
    [pc |-> "env", env |-> env, libs |-> libs,
     command |-> Null,      \* argv[1], once main has read it
     loader |-> NewLoader, available |-> FALSE,
     tried |-> << >>,       \* every path given to dlopen, in order
     last |-> [path |-> Null, opened |-> Null, ret |-> FALSE],   \* the last loadLibrary call
     exit |-> -1,           \* the exit code, once main has returned
     out |-> Null,          \* what the command printed: a result, an error payload
     served |-> Null]       \* the implementation that ran the command

InitHost ==
    /\ fs = EmptyFS
    /\ pre = fs
    /\ cmd = NoCmd
    /\ res = NoRes
    /\ log = << >>
    /\ mon = NoMonitor
    /\ host \in { Started(env, libs) : env \in {Null, "", EnvPath}, libs \in [LibPaths -> Libraries] }
    /\ analyzer = NoAnalyzer
    /\ nav = NoSession

\* one loadLibrary call of init_fileops_library and what follows it
Try(path, next) ==
    LET r == loadLibrary(host.loader, host.libs, host.env, path)
    IN  host' = [host EXCEPT !.loader = r.loader,
                             !.tried = @ \o r.tried,
                             !.last = [path |-> path, opened |-> r.opened, ret |-> r.ret],
                             !.available = r.ret,
                             !.pc = IF r.ret THEN "main" ELSE next]

\* init_fileops_library: FILEOPS_LIB_PATH, if it is set and not empty
TryEnv ==
    /\ host.pc = "env"
    /\ IF host.env # Null /\ host.env # ""
       THEN Try(host.env, "default")
       ELSE host' = [host EXCEPT !.pc = "default"]
    /\ UNCHANGED << fs, pre, cmd, res, log, mon, analyzer, nav >>

\* init_fileops_library: the default path
TryDefault ==
    /\ host.pc = "default"
    /\ Try(DefaultPath, "relative")
    /\ UNCHANGED << fs, pre, cmd, res, log, mon, analyzer, nav >>

\* init_fileops_library: the relative path
TryRelative ==
    /\ host.pc = "relative"
    /\ Try(RelativePath, "system")
    /\ UNCHANGED << fs, pre, cmd, res, log, mon, analyzer, nav >>

\* init_fileops_library: the path in /usr/local/lib, and the warning after it
TrySystem ==
    /\ host.pc = "system"
    /\ Try(SystemPath, "main")
    /\ UNCHANGED << fs, pre, cmd, res, log, mon, analyzer, nav >>

\* FileNavigator::execute_command: the payload of the command.  No branch
\* of it, and nothing it calls, looks at the loader.
execute_command(command, fails) ==
    IF command \in KnownCommands
    THEN [out |-> IF fails THEN "error payload" ELSE "result", served |-> "built-in"]
    ELSE [out |-> "Unknown command", served |-> Null]

\* main after init_fileops_library, on some command line: the operation of a command fails or not, and building the strings of
\* the dispatch raises std::bad_alloc or not
Main ==
    /\ host.pc = "main"
    /\ \E command \in CommandLines, fails \in BOOLEAN, raises \in BOOLEAN :
         host' = IF command = Null
                 THEN [host EXCEPT !.command = command, !.pc = "exited", !.exit = 1, !.out = "help"]
                 ELSE IF command \in {"--help", "-h", "help"}
                 THEN [host EXCEPT !.command = command, !.pc = "exited", !.exit = 0, !.out = "help"]
                 ELSE IF command \in {"--version", "-v"}
                 THEN [host EXCEPT !.command = command, !.pc = "exited", !.exit = 0, !.out = "version"]
                 ELSE IF command = "--lib-status"
                 THEN [host EXCEPT !.command = command, !.pc = "exited", !.exit = 0,
                                   !.out = IF is_library_available(host) THEN "loaded" ELSE "not_loaded"]
                 ELSE IF raises
                 THEN [host EXCEPT !.command = command, !.pc = "exited", !.exit = 1, !.out = "Exception"]
                 ELSE [host EXCEPT !.command = command, !.pc = "exited", !.exit = 0,
                                   !.out = execute_command(command, fails).out,
                                   !.served = execute_command(command, fails).served]
    /\ UNCHANGED << fs, pre, cmd, res, log, mon, analyzer, nav >>

NextHost == TryEnv \/ TryDefault \/ TryRelative \/ TrySystem \/ Main

SpecHost == InitHost /\ [][NextHost]_vars

(***************************************************************************)
(* fileops_loader.cpp: two FileOpsLoader objects of one program that       *)
(* loads libraries into them, moves one into the other and calls them.     *)
(***************************************************************************)
Loaders == {"a", "b"}

\* what a moved-from std::function may hold: its target still, or nothing
MovedFrom(table) == { table, [name \in Required |-> Null] }

\* FileOpsLoader::FileOpsLoader(FileOpsLoader&&): the new object and what
\* is left of the other
MoveConstruct(other, left) ==
    [new |-> [handle |-> other.handle, loaded |-> other.loaded, table |-> other.table,
              last_error |-> other.last_error, held |-> other.held],
     other |-> [other EXCEPT !.handle = Null, !.loaded = FALSE, !.table = left,
                             !.last_error = "", !.held = {}]]

\* a move assignment that keeps its own loaded flag
MoveAssign_keeps_loaded(this, other, left) ==
    [this |-> [handle |-> other.handle, loaded |-> this.loaded, table |-> other.table,
               last_error |-> other.last_error, held |-> other.held],
     other |-> [other EXCEPT !.handle = Null, !.loaded = FALSE, !.table = left,
                             !.last_error = "", !.held = {}]]

\* FileOpsLoader::operator=(FileOpsLoader&&) on another object: the handle
\* this held is closed, then all of the other is taken
MoveAssign(this, other, left) ==
    [this |-> [handle |-> other.handle, loaded |-> other.loaded, table |-> other.table,
               last_error |-> other.last_error, held |-> other.held],
     other |-> [other EXCEPT !.handle = Null, !.loaded = FALSE, !.table = left,
                             !.last_error = "", !.held = {}]]

\* listFiles, copyFile, fileExists, isDirectory: the entry point called, if
\* any, and whether the failure value is returned
CallEntry(loader, name) ==
    IF ~loader.loaded
    THEN [called |-> FALSE, entry |-> Null, library |-> Null, failure |-> TRUE]
    ELSE [called |-> TRUE, entry |-> loader.table[name], library |-> loader.handle,
          failure |-> FALSE]

NoCall == [op |-> "none", on |-> "none", called |-> FALSE, entry |-> Null, library |-> Null,
           failure |-> FALSE]

InitLoaders ==
    /\ fs = EmptyFS
    /\ pre = fs
    /\ cmd = NoCmd
    /\ res = NoRes
    /\ log = << >>
    /\ mon = NoMonitor
    /\ analyzer = NoAnalyzer
    /\ nav = NoSession
    /\ host \in { [pc |-> "loaders", env |-> env, libs |-> libs,
                   a |-> NewLoader, b |-> NewLoader, last |-> NoCall] :
                  env \in {Null, RelativePath},
                  libs \in [{DefaultPath, RelativePath} -> Libraries] }

LoaderLoad ==
    /\ host.pc = "loaders"
    /\ \E x \in Loaders, path \in {"", DefaultPath, RelativePath, SystemPath} :
         LET r == loadLibrary(host[x], host.libs, host.env, path)
         IN  host' = [host EXCEPT ![x] = r.loader,
                                  !.last = [NoCall EXCEPT !.op = "loadLibrary", !.on = x]]
    /\ UNCHANGED << fs, pre, cmd, res, log, mon, analyzer, nav >>

LoaderMoveAssign ==
    /\ host.pc = "loaders"
    /\ \E x \in Loaders, y \in Loaders :
         IF x = y
         THEN host' = [host EXCEPT !.last = [NoCall EXCEPT !.op = "operator=", !.on = x]]
         ELSE \E left \in MovedFrom(host[y].table) :
                LET r == MoveAssign(host[x], host[y], left)
                IN  host' = [host EXCEPT ![x] = r.this, ![y] = r.other,
                                         !.last = [NoCall EXCEPT !.op = "operator=", !.on = x]]
    /\ UNCHANGED << fs, pre, cmd, res, log, mon, analyzer, nav >>

\* the object x ends and a new one is move-constructed in its place
LoaderMoveConstruct ==
    /\ host.pc = "loaders"
    /\ \E x \in Loaders, y \in Loaders :
         /\ x # y
         /\ \E left \in MovedFrom(host[y].table) :
              LET r == MoveConstruct(host[y], left)
              IN  host' = [host EXCEPT ![x] = r.new, ![y] = r.other,
                                       !.last = [NoCall EXCEPT !.op = "FileOpsLoader", !.on = x]]
    /\ UNCHANGED << fs, pre, cmd, res, log, mon, analyzer, nav >>

LoaderCall ==
    /\ host.pc = "loaders"
    /\ \E x \in Loaders, name \in Required :
         host' = [host EXCEPT !.last = [op |-> name, on |-> x] @@ CallEntry(host[x], name)]
    /\ UNCHANGED << fs, pre, cmd, res, log, mon, analyzer, nav >>

NextLoaders == LoaderLoad \/ LoaderMoveAssign \/ LoaderMoveConstruct \/ LoaderCall

SpecLoaders == InitLoaders /\ [][NextLoaders]_vars

(***************************************************************************)
(* file_utils.c: normalize_path and is_safe_path.  A path is the sequence  *)
(* of its characters.                                                      *)
(***************************************************************************)
\* the pieces the paths given to normalize_path are written with
Pieces == { << "/" >>, << "." >>, << ".", "." >>, << "\\" >>, << "e", "t", "c" >>, << "a" >> }

RECURSIVE Written(_)
Written(n) ==
    IF n = 0 THEN { << >> }
    ELSE { path \o piece : path \in Written(n - 1), piece \in Pieces } \cup { << >> }

\* the for loop of normalize_path that replaces every backslash
Slashed(path) == [i \in DOMAIN path |-> IF path[i] = "\\" THEN "/" ELSE path[i]]

\* strtok(temp, "/") until NULL: the runs of characters between slashes
RECURSIVE Tokens(_)
Tokens(temp) ==
    IF temp = << >> THEN << >>
    ELSE IF Head(temp) = "/" THEN Tokens(Tail(temp))
    ELSE LET len == IF \E i \in DOMAIN temp : temp[i] = "/"
                    THEN (CHOOSE i \in DOMAIN temp :
                             temp[i] = "/" /\ \A j \in 1..(i - 1) : temp[j] # "/") - 1
                    ELSE Len(temp)
         IN  << SubSeq(temp, 1, len) >> \o Tokens(SubSeq(temp, len + 1, Len(temp)))

\* a while loop that keeps a ".." it cannot resolve
RECURSIVE Components_keeps_unresolved(_, _)
Components_keeps_unresolved(tokens, components) ==
    IF tokens = << >> THEN components
    ELSE IF Head(tokens) = << ".", "." >>
    THEN Components_keeps_unresolved(Tail(tokens),
                    IF Len(components) > 0 /\ components[Len(components)] # << ".", "." >>
                    THEN SubSeq(components, 1, Len(components) - 1)
                    ELSE Append(components, Head(tokens)))
    ELSE IF Head(tokens) # << "." >> /\ Len(Head(tokens)) > 0
    THEN Components_keeps_unresolved(Tail(tokens), Append(components, Head(tokens)))
    ELSE Components_keeps_unresolved(Tail(tokens), components)

\* the while loop of normalize_path over the tokens
RECURSIVE Components(_, _)
Components(tokens, components) ==
    IF tokens = << >> THEN components
    ELSE IF Head(tokens) = << ".", "." >>
    THEN Components(Tail(tokens),
                    IF Len(components) > 0 THEN SubSeq(components, 1, Len(components) - 1)
                    ELSE components)
    ELSE IF Head(tokens) # << "." >> /\ Len(Head(tokens)) > 0
    THEN Components(Tail(tokens), Append(components, Head(tokens)))
    ELSE Components(Tail(tokens), components)

\* the for loop of normalize_path that puts "/" between the components
RECURSIVE Joined(_)
Joined(components) ==
    IF components = << >> THEN << >>
    ELSE IF Len(components) = 1 THEN components[1]
    ELSE components[1] \o << "/" >> \o Joined(Tail(components))

normalize_path(path) ==
    LET result == Joined(Components(Tokens(Slashed(path)), << >>))
    IN  IF result = << >> THEN << "." >> ELSE result

strstr(haystack, needle) ==
    \E i \in 0..Len(haystack) :
        i + Len(needle) <= Len(haystack) /\ SubSeq(haystack, i + 1, i + Len(needle)) = needle

\* has_dangerous_chars: in a path with a slash and some other character,
\* a component between two slashes, or after the last, that holds a slash
has_dangerous_chars(path) ==
    /\ \E i \in DOMAIN path : path[i] # "/"
    /\ \E i \in DOMAIN path : path[i] = "/"
    /\ \E k \in DOMAIN Tokens(path) : \E j \in DOMAIN Tokens(path)[k] : Tokens(path)[k][j] = "/"

system_paths ==
    { << "/", "b", "i", "n", "/" >>, << "/", "s", "b", "i", "n", "/" >>,
      << "/", "u", "s", "r", "/", "b", "i", "n", "/" >>,
      << "/", "u", "s", "r", "/", "s", "b", "i", "n", "/" >>,
      << "/", "e", "t", "c", "/" >>, << "/", "b", "o", "o", "t", "/" >>,
      << "/", "l", "i", "b", "/" >>, << "/", "l", "i", "b", "6", "4", "/" >>,
      << "/", "r", "o", "o", "t", "/" >>,
      << "/", "v", "a", "r", "/", "l", "o", "g", "/" >>,
      << "/", "p", "r", "o", "c", "/" >>, << "/", "s", "y", "s", "/" >> }

\* is_safe_path; link: realpath fails on the path and lstat finds a
\* symbolic link there
is_safe_path(path, link) ==
    IF strstr(path, << ".", ".", "/" >>) THEN FALSE
    ELSE IF link THEN FALSE
    ELSE IF has_dangerous_chars(path) THEN FALSE
    ELSE IF \E prefix \in system_paths :
               Len(path) >= Len(prefix) /\ SubSeq(path, 1, Len(prefix)) = prefix
    THEN FALSE
    ELSE TRUE

InitPath ==
    /\ fs = EmptyFS
    /\ pre = fs
    /\ cmd = NoCmd
    /\ res = NoRes
    /\ log = << >>
    /\ mon = NoMonitor
    /\ host = NoHost
    /\ analyzer = NoAnalyzer
    /\ nav = NoSession

\* is_safe_path on the result of normalize_path, for a written path; the
\* current directory "." is no symbolic link
IsSafeNormalized ==
    /\ cmd.op = "none"
    /\ \E p \in Written(MaxPieces), link \in BOOLEAN :
         /\ link => normalize_path(p) # << "." >>
         /\ cmd' = [op |-> "is_safe_path", p |-> p, path |-> normalize_path(p), link |-> link]
         /\ res' = [ok |-> is_safe_path(normalize_path(p), link), err |-> "OK",
                    message |-> "", out |-> << >>]
    /\ UNCHANGED << fs, pre, log, mon, host, analyzer, nav >>

\* normalize_path on a written path, and normalize_path on its result
NormalizeTwice ==
    /\ cmd.op = "none"
    /\ \E p \in Written(MaxPieces) :
         /\ cmd' = [op |-> "normalize_path", p |-> p, path |-> normalize_path(p)]
         /\ res' = [ok |-> TRUE, err |-> "OK", message |-> "",
                    out |-> normalize_path(normalize_path(p))]
    /\ UNCHANGED << fs, pre, log, mon, host, analyzer, nav >>

NextPath == IsSafeNormalized

NextNormalize == NormalizeTwice

SpecNormalize == InitPath /\ [][NextNormalize]_vars

SpecPath == InitPath /\ [][NextPath]_vars

(***************************************************************************)
(* The permission string of an entry: get_permissions_string of the        *)
(* navigator (list, info), permissions_to_string of file_utils.c           *)
(* (get_n8n_file_info) and get_permissions_string of file_ops.c            *)
(* (n8n_list_files).  A mode is the integer st_mode.                       *)
(***************************************************************************)
S_IFSOCK == 49152    \* 0140000
S_IFLNK == 40960     \* 0120000
S_IFREG == 32768     \* 0100000
S_IFBLK == 24576     \* 0060000
S_IFDIR == 16384     \* 0040000
S_IFCHR == 8192      \* 0020000
S_IFIFO == 4096      \* 0010000
S_ISUID == 2048      \* 04000
S_ISGID == 1024      \* 02000
S_ISVTX == 512       \* 01000
S_IRUSR == 256
S_IWUSR == 128
S_IXUSR == 64
S_IRGRP == 32
S_IWGRP == 16
S_IXGRP == 8
S_IROTH == 4
S_IWOTH == 2
S_IXOTH == 1

\* mode & bit, for a mask of one bit
And(mode, bit) == (mode \div bit) % 2 = 1
\* mode & S_IFMT, for a mode of 16 bits
FileType(mode) == (mode \div S_IFIFO) * S_IFIFO

Modes == { type + bits : type \in {S_IFSOCK, S_IFLNK, S_IFREG, S_IFBLK, S_IFDIR, S_IFCHR, S_IFIFO},
                         bits \in 0..4095 }

\* the nine assignments of r, w, x or - that the three functions share
Triplets(mode) ==
    << IF And(mode, S_IRUSR) THEN "r" ELSE "-", IF And(mode, S_IWUSR) THEN "w" ELSE "-",
       IF And(mode, S_IXUSR) THEN "x" ELSE "-",
       IF And(mode, S_IRGRP) THEN "r" ELSE "-", IF And(mode, S_IWGRP) THEN "w" ELSE "-",
       IF And(mode, S_IXGRP) THEN "x" ELSE "-",
       IF And(mode, S_IROTH) THEN "r" ELSE "-", IF And(mode, S_IWOTH) THEN "w" ELSE "-",
       IF And(mode, S_IXOTH) THEN "x" ELSE "-" >>

\* the three if statements on the special bits
Special(mode, str) ==
    [i \in DOMAIN str |->
        IF i = 4 /\ And(mode, S_ISUID) THEN (IF And(mode, S_IXUSR) THEN "s" ELSE "S")
        ELSE IF i = 7 /\ And(mode, S_ISGID) THEN (IF And(mode, S_IXGRP) THEN "s" ELSE "S")
        ELSE IF i = 10 /\ And(mode, S_ISVTX) THEN (IF And(mode, S_IXOTH) THEN "t" ELSE "T")
        ELSE str[i]]

\* the type character of the navigator and of file_utils.c
TypeChar(mode) ==
    IF FileType(mode) = S_IFDIR THEN "d"
    ELSE IF FileType(mode) = S_IFLNK THEN "l"
    ELSE IF FileType(mode) = S_IFIFO THEN "p"
    ELSE IF FileType(mode) = S_IFSOCK THEN "s"
    ELSE IF FileType(mode) = S_IFCHR THEN "c"
    ELSE IF FileType(mode) = S_IFBLK THEN "b"
    ELSE "-"

\* navigator.cpp: FileNavigator::get_permissions_string
get_permissions_string(mode) == Special(mode, << TypeChar(mode) >> \o Triplets(mode))

\* file_utils.c: permissions_to_string
permissions_to_string(mode) == Special(mode, << TypeChar(mode) >> \o Triplets(mode))

\* file_ops.c: get_permissions_string
file_ops_get_permissions_string(mode) ==
    << IF FileType(mode) = S_IFDIR THEN "d" ELSE IF FileType(mode) = S_IFLNK THEN "l" ELSE "-" >>
        \o Triplets(mode)

\* every code path that fills the permission string of an entry, on one mode
Permissions ==
    /\ cmd.op = "none"
    /\ \E mode \in Modes :
         /\ cmd' = [op |-> "permissions", mode |-> mode]
         /\ res' = [ok |-> TRUE, err |-> "OK", message |-> "",
                    out |-> [info |-> get_permissions_string(mode),
                             list |-> get_permissions_string(mode),
                             get_n8n_file_info |-> permissions_to_string(mode),
                             n8n_list_files |-> file_ops_get_permissions_string(mode)]]
    /\ UNCHANGED << fs, pre, log, mon, host, analyzer, nav >>

NextPermissions == Permissions

SpecPermissions == InitPath /\ [][NextPermissions]_vars

(***************************************************************************)
(* ProjectUtils.cpp: ProjectAnalyzer.  totalSize and FileInfo::size are    *)
(* size_t; the model gives size_t SizeBits bits.  fileCount and            *)
(* folderCount count the elements of two vectors held in memory and        *)
(* cannot reach the width of size_t.                                       *)
(***************************************************************************)
SizeT == 0..(2^SizeBits - 1)
Extensions == {".cpp", ".hpp"}

\* ProjectAnalyzer::ProjectAnalyzer
NewAnalyzer ==
    [files |-> << >>, folders |-> << >>, extensionStats |-> [ext \in Extensions |-> 0],
     totalSize |-> 0, fileCount |-> 0, folderCount |-> 0,
     calls |-> << >>]      \* the calls made, in order

\* an addFile that sets the total to the size of the last file
addFile_last_size(a, file) ==
    [a EXCEPT !.files = Append(@, file),
              !.totalSize = file.size,
              !.fileCount = @ + 1,
              !.extensionStats[file.extension] = @ + 1]

\* ProjectAnalyzer::addFile
addFile(a, file) ==
    [a EXCEPT !.files = Append(@, file),
              !.totalSize = (@ + file.size) % (2^SizeBits),
              !.fileCount = @ + 1,
              !.extensionStats[file.extension] = @ + 1]

\* ProjectAnalyzer::addFolder
addFolder(a, folderName) ==
    [a EXCEPT !.folders = Append(@, folderName), !.folderCount = @ + 1]

getTotalSize(a) == a.totalSize
getFileCount(a) == a.fileCount
getFolderCount(a) == a.folderCount

InitAnalyzer ==
    /\ fs = EmptyFS
    /\ pre = fs
    /\ cmd = NoCmd
    /\ res = NoRes
    /\ log = << >>
    /\ mon = NoMonitor
    /\ host = NoHost
    /\ analyzer = NewAnalyzer
    /\ nav = NoSession

AddFile ==
    /\ Len(analyzer.calls) < MaxCalls
    /\ \E size \in SizeT, extension \in Extensions :
         analyzer' = [addFile(analyzer, [size |-> size, extension |-> extension])
                         EXCEPT !.calls = Append(@, "addFile")]
    /\ UNCHANGED << fs, pre, cmd, res, log, mon, host, nav >>

AddFolder ==
    /\ Len(analyzer.calls) < MaxCalls
    /\ \E folderName \in {"src", "include"} :
         analyzer' = [addFolder(analyzer, folderName) EXCEPT !.calls = Append(@, "addFolder")]
    /\ UNCHANGED << fs, pre, cmd, res, log, mon, host, nav >>

NextAnalyzer == AddFile \/ AddFolder

SpecAnalyzer == InitAnalyzer /\ [][NextAnalyzer]_vars

(***************************************************************************)
(* Properties of delete.                                                   *)
(***************************************************************************)
IsProperPrefix(p, q) == IsPrefix(p, q) /\ p # q
\* the directory entry a path named before the command ran
RealBefore(p) == Resolve(pre, p, FALSE).path
WasDir(p) == lstat(pre, p).err = "OK" /\ lstat(pre, p).node.kind = "dir"
Removed(p) == \E i \in DOMAIN log : log[i].path = p /\ log[i].err = "OK"

RecursiveDeleteDone == cmd.op = "delete" /\ cmd.recursive /\ WasDir(cmd.path) /\ res.ok

\* C1: a recursive delete of a directory that reports success leaves the
\* target path and every descendant of it nonexistent, it removed every one
\* of them, and each entry was removed before the directory that held it.
C1_RecursiveDeleteLeavesNothing ==
    RecursiveDeleteDone =>
        /\ Subtree(fs, RealBefore(cmd.path)) = {}
        /\ lstat(fs, cmd.path).err = "ENOENT"
        /\ \A q \in Subtree(pre, RealBefore(cmd.path)) :
              Removed(cmd.path \o SubSeq(q, Len(RealBefore(cmd.path)) + 1, Len(q)))
        /\ \A i, j \in DOMAIN log :
              IsProperPrefix(log[i].path, log[j].path) => j < i

\* a tree with a subdirectory and at least three nodes was deleted
C1_Witness ==
    /\ RecursiveDeleteDone
    /\ Cardinality(Subtree(pre, RealBefore(cmd.path))) >= 3
    /\ \E q \in Subtree(pre, RealBefore(cmd.path)) : q # RealBefore(cmd.path) /\ pre[q].kind = "dir"

PlainDeleteOfDir == cmd.op = "delete" /\ ~cmd.recursive /\ WasDir(cmd.path)
WasEmptyDir(p) == WasDir(p) /\ Children(pre, RealBefore(p)) = {}

\* C2 as stated: delete without the recursive flag fails NotEmpty on every
\* directory, empty or not, and changes nothing (the root directory, which
\* rmdir refuses as busy, is not held against the statement).
C2_PlainDeleteAlwaysFails ==
    PlainDeleteOfDir =>
        /\ ~res.ok
        /\ RealBefore(cmd.path) # Root => res.err = "ENOTEMPTY"
        /\ fs = pre

\* C2 amended: delete without the recursive flag fails NotEmpty on every
\* non-empty directory below the root and changes nothing; an empty
\* directory below the root is removed.
C2_PlainDeleteFailsOnNonEmpty ==
    (PlainDeleteOfDir /\ RealBefore(cmd.path) # Root) =>
        IF WasEmptyDir(cmd.path)
        THEN res.ok /\ fs = [pre EXCEPT ![RealBefore(cmd.path)] = NoNode]
        ELSE ~res.ok /\ res.err = "ENOTEMPTY" /\ fs = pre

\* a non-empty directory was refused
C2_Witness ==
    PlainDeleteOfDir /\ RealBefore(cmd.path) # Root /\ ~WasEmptyDir(cmd.path) /\ ~res.ok

(***************************************************************************)
(* Properties of copy.                                                     *)
(***************************************************************************)
IsCopy == cmd.op \in {"copy", "n8n_copy_file"}
WasLink(p) == lstat(pre, p).err = "OK" /\ lstat(pre, p).node.kind = "symlink"
\* the counterpart under the destination of a path under the source
Counterpart(p) == cmd.dst \o SubSeq(p, Len(cmd.src) + 1, Len(p))
\* the children a recursive copy took up, and those whose copy failed
Attempted == { log[i].path : i \in { k \in DOMAIN log : log[k].call = "child" } }
Failed == { log[i].path : i \in { k \in DOMAIN log : log[k].call = "child_failed" } }
IsLinkTo(f, p, t) == lstat(f, p).err = "OK" /\ lstat(f, p).node = LinkNode(t)
ReadOrWritten == { log[i].path : i \in { k \in DOMAIN log : log[k].call \in {"open", "creat", "write"} } }

\* C3: a successful copy whose source is a symbolic link leaves a symbolic
\* link with the same target at the destination and neither opens the source
\* for reading nor writes file data to the destination; the same holds for
\* every symbolic link that a successful recursive copy meets as a child.
C3_SymlinkCopiedAsLink ==
    (IsCopy /\ res.ok) =>
        /\ WasLink(cmd.src) =>
              /\ IsLinkTo(fs, cmd.dst, lstat(pre, cmd.src).node.target)
              /\ ReadOrWritten = {}
        /\ \A p \in Attempted :
              WasLink(p) =>
                  /\ IsLinkTo(fs, Counterpart(p), lstat(pre, p).node.target)
                  /\ p \notin ReadOrWritten /\ Counterpart(p) \notin ReadOrWritten

DirCopyDone == IsCopy /\ cmd.recursive /\ WasDir(cmd.src) /\ res.ok

\* C4: a copy of a directory that reports success has made the destination a
\* directory and every descendant of the source has a counterpart under it.
C4_DirectoryCopyIsComplete ==
    DirCopyDone =>
        /\ lstat(fs, cmd.dst).err = "OK" /\ lstat(fs, cmd.dst).node.kind = "dir"
        /\ \A q \in Subtree(pre, RealBefore(cmd.src)) :
              lstat(fs, cmd.dst \o SubSeq(q, Len(RealBefore(cmd.src)) + 1, Len(q))).err = "OK"

FirstFailure == CHOOSE k \in DOMAIN log :
                    /\ log[k].call = "child_failed"
                    /\ \A j \in 1..(k - 1) : log[j].call # "child_failed"
ChildFailed == cmd.op = "copy" /\ \E k \in DOMAIN log : log[k].call = "child_failed"

\* C5: in a recursive copy of the navigator the first child whose copy fails
\* ends the call: nothing is attempted after it (the failure only travels up
\* through the enclosing directories), the call returns that child's error,
\* and every child copied before it is still at the destination, none of
\* them having been removed again.
C5_FirstFailureAborts ==
    ChildFailed =>
        /\ \A j \in DOMAIN log : j > FirstFailure => log[j].call = "child_failed"
        /\ ~res.ok /\ res.err = log[FirstFailure].err
        /\ \A p \in Attempted \ Failed :
              /\ lstat(fs, Counterpart(p)).err = "OK"
              /\ \A j \in DOMAIN log :
                    log[j].call \in {"unlink", "rmdir"} => log[j].path # Counterpart(p)

\* a child was copied and stays, and the next one failed
C5_WitnessCopiedThenFailed ==
    /\ ChildFailed
    /\ Attempted \ Failed # {}
    /\ \A p \in Attempted \ Failed : lstat(pre, Counterpart(p)).err # "OK"

(***************************************************************************)
(* Properties of n8n_batch_copy.                                           *)
(***************************************************************************)
IsBatch == cmd.op = "n8n_batch_copy"
Items == SelectSeq(log, LAMBDA e : e.call = "item")
Ones(seq) == Cardinality({ i \in DOMAIN seq : seq[i] = 1 })

\* every pair taken up in index order, one outcome recorded per pair, and the
\* counts adding up to the number of pairs
EveryPairCounted ==
    LET n == Len(cmd.sources)
    IN  /\ Len(Items) = n
        /\ \A i \in 1..n : Items[i].path = cmd.sources[i]
        /\ Len(res.out.results) = n
        /\ res.out.successCount + res.out.failCount = n
        /\ res.out.successCount = Ones(res.out.results)
        /\ \A i \in 1..n :
              /\ res.out.results[i] = 1 => lstat(fs, cmd.destinations[i]).err = "OK"
              /\ lstat(fs, cmd.sources[i]).err # "OK" => res.out.results[i] = 0

C7_FailedCarriesCodeAndMessage ==
    (cmd.op = "n8n_copy_file" /\ ~res.ok) => res.err # "0" /\ res.message # ""

(***************************************************************************)
(* Properties of mkdir, move and rename.                                   *)
(***************************************************************************)
IsMkdir == cmd.op = "mkdir"
Ancestors(p) == { SubSeq(p, 1, n) : n \in 1..(Len(p) - 1) }
LogIndex(call, p) == CHOOSE i \in DOMAIN log : log[i].call = call /\ log[i].path = p

\* C8: mkdir of a path that is a directory succeeds, with or without the
\* parents option (the root directory is not held against the statement);
\* mkdir of a path that exists and is no directory fails; with the parents
\* option a successful mkdir has made every missing ancestor before the path
\* itself.
C8_MkdirOfExistingDirectorySucceeds ==
    IsMkdir =>
        /\ (WasDir(cmd.path) /\ cmd.path # Root) => res.ok
        /\ (lstat(pre, cmd.path).err = "OK" /\ ~WasDir(cmd.path)) => ~res.ok
        /\ (cmd.parents /\ res.ok) =>
              \A a \in Ancestors(cmd.path) :
                  /\ lstat(fs, a).err = "OK"
                  /\ lstat(pre, a).err # "OK" =>
                        /\ \E i \in DOMAIN log : log[i] = Event("mkdir", a, "OK")
                        /\ LogIndex("mkdir", a) < LogIndex("mkdir", cmd.path)

IsMove == cmd.op \in {"move", "rename"}
SameEntry == RealBefore(cmd.src) = RealBefore(cmd.dst)
\* the subtree that stood at the source entry stands at the destination entry
MovedOver ==
    LET ro == RealBefore(cmd.src)
        rn == RealBefore(cmd.dst)
    IN  /\ Subtree(fs, ro) = {}
        /\ \A q \in Subtree(pre, ro) : fs[rn \o SubSeq(q, Len(ro) + 1, Len(q))] = pre[q]
        /\ Cardinality(Subtree(fs, rn)) = Cardinality(Subtree(pre, ro))
OneRenameOnly == Len(log) = 1 /\ log[1].call = "rename"

IsList == cmd.op \in {"list", "n8n_list_files"}
ClassRank(type) == IF type = "directory" THEN 1 ELSE IF type = "symlink" THEN 2 ELSE 3
InOrder(a, b) ==
    \/ ClassRank(a.type) < ClassRank(b.type)
    \/ ClassRank(a.type) = ClassRank(b.type) /\ StrLess(a.name, b.name)

\* C10: the sequence list returns for a directory has all directories first,
\* then all symlinks, then all files, each class in ascending order of name.
C10_ListIsSorted ==
    (IsList /\ res.ok /\ (cmd.op = "n8n_list_files" => ~cmd.options.recursive)) =>
        \A i, j \in DOMAIN res.out : i < j => InOrder(res.out[i], res.out[j])

(***************************************************************************)
(* Properties of the hidden-entry filter of list.                          *)
(***************************************************************************)
\* a plain listing of a directory by n8n_list_files: one level, no name filter
PlainListing ==
    /\ cmd.op = "n8n_list_files" /\ res.ok
    /\ ~cmd.options.recursive /\ cmd.options.filter = << >>
    /\ stat(fs, cmd.path).err = "OK" /\ stat(fs, cmd.path).node.kind = "dir"
Listed == { res.out[i].name : i \in DOMAIN res.out }
EntriesOf(p) == Children(fs, Resolve(fs, p, TRUE).path)
IsDotName(n) == n[1] = 46

\* C11: a listing with showHidden = false returns exactly the entries of the
\* directory whose name does not begin with '.', each once; with showHidden =
\* true it returns the dot-prefixed entries as well.
C11_ListHidesExactlyDotEntries ==
    PlainListing =>
        /\ Listed = { n \in EntriesOf(cmd.path) : cmd.options.showHidden \/ ~IsDotName(n) }
        /\ Len(res.out) = Cardinality(Listed)

(***************************************************************************)
(* Properties of search.                                                   *)
(***************************************************************************)
IsSearch == cmd.op = "search"
Enumerated == SelectSeq(log, LAMBDA e : e.call = "enumerate")
Pushed == SelectSeq(log, LAMBDA e : e.call = "push")
\* how far below the start directory a visited path lies
DepthBelowStart(p) == Len(p) - Len(cmd.path)

\* C12: a recursive search takes directories from a FIFO queue: the
\* directories are enumerated in the order they were pushed, every directory
\* at depth d before any at depth d + 1, and the subdirectories of a
\* directory are pushed only once that directory has been enumerated and
\* before the next one is; a non-recursive search enumerates the start
\* directory only.
C12_SearchIsBreadthFirst ==
    IsSearch =>
        /\ cmd.recursive =>
              /\ [i \in DOMAIN Enumerated |-> Enumerated[i].path]
                    = [i \in DOMAIN Pushed |-> Pushed[i].path]
              /\ \A i, j \in DOMAIN Enumerated :
                    i < j => DepthBelowStart(Enumerated[i].path) <= DepthBelowStart(Enumerated[j].path)
              /\ \A k \in DOMAIN log :
                    (log[k].call = "push" /\ log[k].path # cmd.path) =>
                        \E e \in 1..(k - 1) :
                            /\ log[e] = Event("enumerate", Parent(log[k].path), "OK")
                            /\ \A m \in (e + 1)..k : log[m].call = "push"
        /\ ~cmd.recursive =>
              /\ Len(Enumerated) = 1 /\ Enumerated[1].path = cmd.path
              /\ Len(Pushed) = 1

\* two directories at depth 1, the one that sorts last with a subdirectory
\* at depth 2: a depth-first or last-in-first-out walk would go down first
C12_Witness ==
    /\ IsSearch /\ cmd.recursive
    /\ Len(Enumerated) = 4
    /\ DepthBelowStart(Enumerated[2].path) = 1
    /\ DepthBelowStart(Enumerated[3].path) = 1
    /\ Parent(Enumerated[4].path) = Enumerated[3].path

(***************************************************************************)
(* Properties of the descent of list and search.                           *)
(***************************************************************************)
IsWalk == cmd.op \in {"n8n_list_files", "search"}
\* the directories the walk opened, in order
Opened == SelectSeq(log, LAMBDA e : e.call \in {"opendir", "enumerate"} /\ e.err = "OK")
RealDir(p) == Resolve(fs, p, TRUE).path
RealDirs == { p \in Paths : fs[p].kind = "dir" }
LinkToDir(p) == lstat(fs, p).node.kind = "symlink" /\ stat(fs, p).node.kind = "dir"
\* search has no option to follow links
FollowsLinks == cmd.op = "n8n_list_files" /\ cmd.options.followSymlinks

StoppedAtWork == mon.pcStop # "none" /\ mon.during \notin {"none", "idle", "done"}

\* C14: once n8n_stop_monitor has been called while n8n_start_monitor is at
\* work in another thread, n8n_start_monitor eventually leaves its loop,
\* and by then the watch and the inotify descriptor are both released.
C14_StopEndsRunAndReleases ==
    StoppedAtWork ~> (mon.pcRun = "done" /\ ~mon.inotify_fd /\ ~mon.watch_fd)


\* the records of a sequence that report a change the watch asked for
Reported(records) == SelectSeq(records, LAMBDA event : event.mask \in EntryMasks)

\* C15: once the loop has handled what it read, the callback has been
\* invoked exactly once for each record of a change that was read, in the
\* order read, with the record's name and an action code from 1 (Create)
\* to 6 (AttributeChange); a read that returned nothing made no callback,
\* was followed by the backoff and did not end the loop.
C15_CallbackOncePerRecord ==
    (mon.pcRun \notin {"none", "dispatch"} /\ mon.callback) =>
        /\ mon.calls = [i \in DOMAIN Reported(mon.decoded) |->
                          [name |-> Reported(mon.decoded)[i].name,
                           action |-> ActionCode(Reported(mon.decoded)[i].mask)]]
        /\ \A i \in DOMAIN mon.calls : mon.calls[i].action \in 1..6
        /\ mon.pcRun = "sleep" => mon.failed = 1 /\ mon.buffer = << >>
        /\ (mon.pcRun = "done" /\ mon.running) => mon.failed = 0

(***************************************************************************)
(* Properties of the backend loader and of the process.                    *)
(***************************************************************************)
\* the candidate locations of the process, in the order of the claim: the
\* process gives no explicit argument
Candidates ==
    (IF host.env # Null /\ host.env # "" THEN << host.env >> ELSE << >>)
        \o << DefaultPath, RelativePath, SystemPath >>

\* a library at the path that opens and has every required entry point
Loads(path) ==
    /\ host.libs[path].opens
    /\ \A name \in Required : {name, Prefixed(name)} \cap host.libs[path].symbols # {}

\* a sequence without the repetitions of its elements
RECURSIVE FirstOccurrences(_)
FirstOccurrences(s) ==
    IF s = << >> THEN << >>
    ELSE LET front == FirstOccurrences(SubSeq(s, 1, Len(s) - 1))
         IN  IF \E i \in DOMAIN front : front[i] = s[Len(s)] THEN front
             ELSE Append(front, s[Len(s)])

\* C16: the locations the process has tried to open are, in the order of
\* their first attempt, the first candidates in the order environment
\* override, install path, relative path, system path; and once loading is
\* over, the library bound is the first candidate that loads, if any does.
C16_CandidatesTriedInOrder ==
    host.pc # "none" =>
        /\ LET tried == FirstOccurrences(host.tried)
           IN  /\ Len(tried) <= Len(Candidates)
               /\ tried = SubSeq(Candidates, 1, Len(tried))
        /\ host.pc \in {"main", "exited"} =>
             IF \E i \in DOMAIN Candidates : Loads(Candidates[i])
             THEN /\ isLoaded(host.loader)
                  /\ \E i \in DOMAIN Candidates :
                       /\ host.loader.handle = Candidates[i]
                       /\ \A j \in 1..(i - 1) : ~Loads(Candidates[j])
             ELSE ~isLoaded(host.loader)

\* the last loadLibrary call opened a library in which some required
\* entry point is under neither its plain nor its prefixed name
OpenedIncomplete ==
    /\ host.pc # "none"
    /\ host.last.opened # Null
    /\ \E name \in Required : {name, Prefixed(name)} \cap host.libs[host.last.opened].symbols = {}

\* C17: after a loadLibrary call that opened a library lacking a required
\* entry point, the call has returned false, isLoaded() is false, the
\* handle is released, getError() is not empty, and the process goes on: a
\* command it then dispatches runs on the built-in implementation and the
\* process exits with 0.
C17_MissingEntryPointFailsLoad ==
    OpenedIncomplete =>
        /\ ~host.last.ret
        /\ ~isLoaded(host.loader)
        /\ host.loader.handle = Null
        /\ host.loader.held = {}
        /\ getError(host.loader) # ""
        /\ ~is_library_available(host)
        /\ (host.pc = "exited" /\ host.command \in KnownCommands /\ host.out # "Exception") =>
               host.served = "built-in" /\ host.exit = 0

C17_Witness ==
    /\ OpenedIncomplete
    /\ host.libs[host.last.opened].symbols # {}
    /\ host.pc = "exited" /\ host.command = "list" /\ host.served = "built-in"

\* the process has dispatched a command that lists, copies or checks a path
DispatchedPrimitive ==
    /\ host.pc = "exited"
    /\ host.command \in {"list", "copy", "info", "cd"}
    /\ host.out # "Exception"

\* C18: a command the process has dispatched was served by the table of the
\* loaded library when a backend is bound (isLoaded() is true), and by the
\* built-in implementation when none is.
C18_BoundBackendServes ==
    DispatchedPrimitive =>
        host.served = IF isLoaded(host.loader) THEN "loaded table" ELSE "built-in"

\* C19: the exit code of the process is not 0 exactly when its command is
\* unknown or the dispatch raised an exception; it is 0 for every known
\* command that was dispatched, whether its operation failed or not.
C19_ExitCodeTellsDispatch ==
    (host.pc = "exited" /\ host.command # Null) =>
        /\ host.exit # 0 <=> (host.command \notin KnownCommands \cup Flags \/ host.out = "Exception")
        /\ (host.command \in KnownCommands /\ host.out \in {"result", "error payload"}) => host.exit = 0

(***************************************************************************)
(* Properties of normalize_path and is_safe_path.                          *)
(***************************************************************************)
\* the path written was absolute: it began with a slash or a backslash
WasAbsolute == Len(cmd.p) > 0 /\ Slashed(cmd.p)[1] = "/"

\* the normalized path still contains "../"
StillEscapes == strstr(cmd.path, << ".", ".", "/" >>)

\* the normalized path of an absolute path names an entry below one of the
\* denylisted directories
UnderDenylisted ==
    /\ WasAbsolute
    /\ \E prefix \in system_paths :
         /\ Len(Tokens(cmd.path)) > Len(Tokens(prefix))
         /\ SubSeq(Tokens(cmd.path), 1, Len(Tokens(prefix))) = Tokens(prefix)

\* C20: is_safe_path of a normalized path is false exactly when the
\* normalized path still has an escaping ".." or lies under a denylisted
\* system directory.
C20_UnsafeIffEscapesOrDenylisted ==
    cmd.op = "is_safe_path" => (~res.ok <=> (StillEscapes \/ UnderDenylisted))

\* C21: normalize_path of a normalized path is that path again, and a
\* normalized path is "." or is made of segments none of which is ".",
\* ".." or empty, with one "/" between two segments and none at either end.
C21_NormalizeIsIdempotent ==
    cmd.op = "normalize_path" =>
        /\ res.out = cmd.path
        /\ cmd.path # << >>
        /\ cmd.path # << "." >> =>
             /\ \A k \in DOMAIN Tokens(cmd.path) :
                  Tokens(cmd.path)[k] \notin { << "." >>, << ".", "." >>, << >> }
             /\ cmd.path = Joined(Tokens(cmd.path))
             /\ \A i \in DOMAIN cmd.path : cmd.path[i] # "\\"

C21_Witness ==
    /\ cmd.op = "normalize_path"
    /\ \E k \in DOMAIN Tokens(Slashed(cmd.p)) : Tokens(Slashed(cmd.p))[k] = << ".", "." >>
    /\ \E i \in DOMAIN cmd.p : cmd.p[i] = "\\"
    /\ cmd.p[1] = "/"
    /\ cmd.path = << "a" >>
    /\ res.out = << "a" >>

(***************************************************************************)
(* Properties of the entries of list, search and info.                     *)
(***************************************************************************)
\* a command that produces entries has run
ProducedEntries ==
    cmd.op \in {"list", "search", "info", "get_n8n_file_info"}

\* the path of the i-th entry produced
EntryPath(i) ==
    IF cmd.op = "list" THEN Append(cmd.path, res.out[i].name) ELSE res.out[i].path

\* C22: every entry list, search or info produces for a directory or a
\* symbolic link has size 0 (or the sentinel -1), and every entry for a
\* regular file has the size of the file.
C22_SizeOnlyForRegularFiles ==
    ProducedEntries =>
        \A i \in DOMAIN res.out :
            /\ res.out[i].type \in {"directory", "symlink"} => res.out[i].size \in {0, -1}
            /\ res.out[i].type = "file" => res.out[i].size = lstat(fs, EntryPath(i)).node.data

\* the permission string of a mode: the type character, then for owner,
\* group and others r, w and the execute position, where the special bit
\* puts low (execute set) or high (execute not set) in place of x or -
ExecutePosition(mode, special, execute, low, high) ==
    IF And(mode, special) THEN (IF And(mode, execute) THEN low ELSE high)
    ELSE IF And(mode, execute) THEN "x" ELSE "-"

\* C23: the permission string every code path gives an entry has 10
\* characters: a type character, then the owner, group and other triplets
\* with s/S, s/S and t/T in the execute position for setuid, setgid and
\* sticky; all code paths give the same string for the same mode.
C23_PermissionStringIsUniform ==
    cmd.op = "permissions" =>
        \A path \in DOMAIN res.out :
            /\ Len(res.out[path]) = 10
            /\ res.out[path][1] \in {"d", "l", "p", "s", "c", "b", "-"}
            /\ res.out[path][2] = (IF And(cmd.mode, S_IRUSR) THEN "r" ELSE "-")
            /\ res.out[path][3] = (IF And(cmd.mode, S_IWUSR) THEN "w" ELSE "-")
            /\ res.out[path][4] = ExecutePosition(cmd.mode, S_ISUID, S_IXUSR, "s", "S")
            /\ res.out[path][5] = (IF And(cmd.mode, S_IRGRP) THEN "r" ELSE "-")
            /\ res.out[path][6] = (IF And(cmd.mode, S_IWGRP) THEN "w" ELSE "-")
            /\ res.out[path][7] = ExecutePosition(cmd.mode, S_ISGID, S_IXGRP, "s", "S")
            /\ res.out[path][8] = (IF And(cmd.mode, S_IROTH) THEN "r" ELSE "-")
            /\ res.out[path][9] = (IF And(cmd.mode, S_IWOTH) THEN "w" ELSE "-")
            /\ res.out[path][10] = ExecutePosition(cmd.mode, S_ISVTX, S_IXOTH, "t", "T")
            /\ res.out[path] = res.out.info

(***************************************************************************)
(* Properties of ProjectAnalyzer.                                          *)
(***************************************************************************)
RECURSIVE SumOfSizes(_)
SumOfSizes(files) ==
    IF files = << >> THEN 0 ELSE files[1].size + SumOfSizes(Tail(files))

CallsOf(name) == Len(SelectSeq(analyzer.calls, LAMBDA call : call = name))

\* C24 as stated: after any sequence of addFile and addFolder calls,
\* getFileCount() is the number of addFile calls, getFolderCount() the
\* number of addFolder calls and getTotalSize() the sum of the sizes of the
\* files added.
C24_CountsAndTotalSize ==
    analyzer.calls # "none" =>
        /\ getFileCount(analyzer) = CallsOf("addFile")
        /\ getFolderCount(analyzer) = CallsOf("addFolder")
        /\ getTotalSize(analyzer) = SumOfSizes(analyzer.files)

\* C24 amended: ... and getTotalSize() is the sum of the sizes of the files
\* added modulo the width of size_t.
C24_CountsAndTotalSizeModulo ==
    analyzer.calls # "none" =>
        /\ getFileCount(analyzer) = CallsOf("addFile")
        /\ getFolderCount(analyzer) = CallsOf("addFolder")
        /\ getTotalSize(analyzer) = SumOfSizes(analyzer.files) % (2^SizeBits)

C24_Witness ==
    /\ analyzer.calls # "none"
    /\ CallsOf("addFile") = 3 /\ CallsOf("addFolder") = 1
    /\ analyzer.calls[2] = "addFolder"
    /\ SumOfSizes(analyzer.files) >= 2^SizeBits
    /\ getTotalSize(analyzer) > 0

\* C25: under every interleaving of n8n_start_monitor, n8n_stop_monitor and
\* a second n8n_stop_monitor, no system call is made on a descriptor that
\* n8n_stop_monitor has released: no read, and no second inotify_rm_watch
\* or close.
C25_NoUseAfterRelease ==
    mon.pcRun # "none" => mon.stale = {}

\* C26: after any sequence of loadLibrary calls, move constructions and
\* move assignments, a loader for which isLoaded() is true has a handle and
\* all four entry points bound to symbols of the library of that handle; a
\* call of listFiles, copyFile, fileExists or isDirectory calls a bound
\* entry point of that library when isLoaded() is true, and otherwise
\* returns the failure value without calling anything.
C26_LoadedMeansBound ==
    host.pc = "loaders" =>
        /\ \A x \in Loaders :
             isLoaded(host[x]) =>
                 /\ host[x].handle # Null
                 /\ host.libs[host[x].handle].opens
                 /\ \A name \in Required :
                      /\ host[x].table[name] \in {name, Prefixed(name)}
                      /\ host[x].table[name] \in host.libs[host[x].handle].symbols
        /\ host.last.op \in Required =>
             IF isLoaded(host[host.last.on])
             THEN /\ host.last.called /\ ~host.last.failure
                  /\ host.last.entry \in host.libs[host.last.library].symbols
             ELSE ~host.last.called /\ host.last.failure

C26_Witness ==
    /\ host.pc = "loaders"
    /\ host.last.op = "list_files" /\ host.last.on = "b" /\ host.last.called
    /\ host.last.entry = "n8n_list_files"
    /\ ~isLoaded(host.a) /\ host.a.last_error = "" /\ host.a.handle = Null
    /\ host.b.handle = RelativePath

\* a delete command ran on a path that named an entry
DeleteDone == cmd.op = "delete" /\ lstat(pre, cmd.path).err = "OK"

\* C27: a delete, recursive or not, successful or not, changes no entry
\* outside the subtree of its target; a symbolic link at the target or in
\* the tree is unlinked as a link, so the node it points to, and all of
\* that node's contents that are not themselves in the deleted tree, are
\* as before.
C27_DeleteStaysInSubtree ==
    DeleteDone =>
        /\ \A q \in Paths : fs[q] # pre[q] => q \in Subtree(pre, RealBefore(cmd.path))
        /\ \A q \in Subtree(pre, RealBefore(cmd.path)) :
             (pre[q].kind = "symlink" /\ fs[q] # pre[q]) =>
                 /\ fs[q] = NoNode
                 /\ \E i \in DOMAIN log : log[i].call = "unlink" /\ log[i].err = "OK"
                 /\ pre[q].target \notin Subtree(pre, RealBefore(cmd.path)) =>
                      \A t \in Subtree(pre, pre[q].target)
                                 \ Subtree(pre, RealBefore(cmd.path)) : fs[t] = pre[t]

\* a recursive delete removed a tree that held a link to a file outside it
C27_Witness ==
    /\ RecursiveDeleteDone
    /\ \E q \in Subtree(pre, RealBefore(cmd.path)) :
         /\ q # RealBefore(cmd.path)
         /\ pre[q].kind = "symlink" /\ fs[q] = NoNode
         /\ pre[q].target \notin Subtree(pre, RealBefore(cmd.path))
         /\ pre[pre[q].target].kind = "file"
         /\ fs[pre[q].target] = pre[pre[q].target]

\* the writes of file data that failed during the last copy
FailedWrites == { i \in DOMAIN log : log[i].call = "write" /\ log[i].err # "OK" }

\* C28: a copy of a regular file whose write of the data failed after the
\* destination was opened has returned an error and left nothing at the
\* destination path.
C28_FailedCopyLeavesNoPartialFile ==
    (IsCopy /\ FailedWrites # {}) =>
        /\ ~res.ok
        /\ \A i \in FailedWrites : lstat(fs, log[i].path).err # "OK"

\* a copy that must not overwrite was asked to copy an existing source onto
\* a path that held an entry
NoOverwriteOntoExisting ==
    /\ cmd.op = "n8n_copy_file" /\ ~cmd.options.overwrite
    /\ lstat(pre, cmd.src).err = "OK"
    /\ lstat(pre, cmd.dst).err = "OK"

\* C29: a copy with overwrite = false onto a destination path that holds an
\* entry fails with EEXIST and leaves every entry, the destination and the
\* source among them, as it was.
C29_NoOverwriteFailsEarly ==
    NoOverwriteOntoExisting => (~res.ok /\ res.err = "EEXIST" /\ fs = pre)

\* the last command was a cd with an argument; the path it named
CdDone == nav.open /\ cmd.op = "cd" /\ cmd.args # << >>
CdTarget == get_absolute_path(nav.before, cmd.args[1])

\* C30: after every command of a session the current path is the one from
\* before the command unless the command was a cd that reported success; a
\* cd whose target is missing or no directory reports an error and keeps the
\* current path.
C30_PathChangesOnlyBySuccessfulCd ==
    nav.open =>
        /\ nav.current_path # nav.before => (cmd.op = "cd" /\ res.ok)
        /\ (CdDone /\ ~is_directory(fs, CdTarget)) =>
               (~res.ok /\ nav.current_path = nav.before)

\* the second command of a session was a cd through a symbolic link: it
\* succeeded and the current path became the directory the link points to
C30_Witness ==
    /\ CdDone /\ res.ok /\ nav.count = MaxCommands
    /\ lstat(fs, CdTarget).node.kind = "symlink"
    /\ nav.current_path # nav.before
    /\ nav.current_path = lstat(fs, CdTarget).node.target
=============================================================================
